---- MODULE Spec2Model ----
(***************************************************************************)
(* World Engine scene editor (Resources/world-engine/editor-app.js).       *)
(*                                                                         *)
(* Specifications over one set of variables:                               *)
(*   SelSpec   the SelectionManager class                                  *)
(*   ModeSpec  the ModeManager class, with switchMode calls that suspend   *)
(*             at their awaits and interleave                              *)
(*   IoSpec    validateWorldDocument / serializeWorld / deserializeWorld   *)
(*             applied to bounded JavaScript values                        *)
(*   DestroySpec  the ModeManager class with destroy()                     *)
(*   TreeSpec  updateNodeById on forests whose objects carry a reference   *)
(*   SessionSpec  the EditorApp handlers updateNode, handleFocusRequest,   *)
(*             handleImport and handleExport                               *)
(*   SessionModeSpec  the same with the session's switchMode calls         *)
(*   RaceSpec  the ModeManager class with markDirty calls recorded on the  *)
(*             switchMode calls they overlap                               *)
(*   FaultSpec  the ModeManager class with rejecting policies and throwing *)
(*             hooks                                                       *)
(*   QuerySpec  findNodeById, flattenNodeIds and the validator on one      *)
(*             document                                                    *)
(*   ExprSpec  the ExpressionTextureClient class (expression-listener.js)  *)
(*   ChatSpec  the chat bridge of the host page and its iframes            *)
(* Each specification leaves the variables of the others at their initial  *)
(* values.                                                                 *)
(***************************************************************************)
EXTENDS Integers, Sequences, FiniteSets, TLC

VARIABLES
    selection,  \* SelectionManager.selection: a Set, kept in insertion order
    focused,    \* SelectionManager.focused: an id or Absent (undefined)
    selOp,      \* the SelectionManager operation that ran last, with its arguments
    mode,       \* ModeManager.mode
    dirty,      \* ModeManager.dirty (the local flag)
    contexts,   \* ModeManager.contexts: the modes whose context has been created
    listeners,  \* ModeManager.listeners: a Set, kept in insertion order
    options,    \* ModeManager.options: which policies are configured
    calls,      \* the switchMode calls in flight: position and captured locals
    returned,   \* the switchMode call the last step completed, with its result
    emitted,    \* the calls the last ModeManager step made to hooks, policies, the factory and listeners
    world,      \* the value handed to validateWorldDocument / serializeWorld
    text,       \* the wire text handed to deserializeWorld
    textFrom,   \* where text comes from: "none", "file" or "serialize"
    vres,       \* the outcome of validateWorldDocument(world)
    sres,       \* the outcome of serializeWorld(world)
    dres,       \* the outcome of deserializeWorld(text)
    forest,     \* the forest handed to updateNodeById, every object with its reference
    tcall,      \* the arguments of the last updateNodeById call
    tres,       \* what that call returned, and the nodes the updater was applied to
    owned,      \* EditorApp: the world state (the owned document)
    sessDirty,  \* EditorApp: the dirty state
    sessOp,     \* EditorApp: the handler that ran last, with what it observed
    qfound,     \* the last findNodeById call: the id asked for and what it returned
    listed,     \* what the last flattenNodeIds call returned
    fallbackUrl,    \* ExpressionTextureClient.fallbackUrl: a url or Null
    lastUrl,        \* ExpressionTextureClient.lastUrl
    currentTexture, \* ExpressionTextureClient.currentTexture
    spriteMap,      \* sprite.material.map
    loads,          \* the loadTexture promises made so far: url and state
    textureLog,     \* the textures applied so far, in order, and the textures disposed
    chat,           \* the host chat: its latest assistant message, or NoMessage
    lastSignature,  \* chatSyncState.lastSignature
    frames,         \* the world-engine iframes: "none", "loading" or "loaded"
    inbox           \* the chat history payloads each frame's document has received

selVars  == <<selection, focused, selOp>>
modeVars == <<mode, dirty, contexts, listeners, options, calls, returned, emitted>>
ioVars   == <<world, text, textFrom, vres, sres, dres>>
treeVars == <<forest, tcall, tres>>
sessVars == <<owned, sessDirty, sessOp>>
queryVars == <<qfound, listed>>
exprVars == <<fallbackUrl, lastUrl, currentTexture, spriteMap, loads, textureLog>>
chatVars == <<chat, lastSignature, frames, inbox>>
otherVars == <<queryVars, exprVars, chatVars>>
vars     == <<selection, focused, selOp, mode, dirty, contexts, listeners,
              options, calls, returned, emitted, world, text, textFrom, vres, sres, dres,
              forest, tcall, tres, owned, sessDirty, sessOp, qfound, listed,
              fallbackUrl, lastUrl, currentTexture, spriteMap, loads, textureLog,
              chat, lastSignature, frames, inbox>>

(***************************************************************************)
(* Generic helpers                                                         *)
(***************************************************************************)
Range(s) == {s[i] : i \in 1..Len(s)}

RECURSIVE Dedupe(_)
\* new Set(array) read back in insertion order: the first occurrence of each member
Dedupe(s) ==
    IF s = <<>> THEN <<>>
    ELSE LET init == Dedupe(SubSeq(s, 1, Len(s) - 1))
             last == s[Len(s)]
         IN  IF last \in Range(init) THEN init ELSE Append(init, last)

\* the element of a one-element set: Only({e(x) : x \in {v}}) is e(v) with v
\* computed once, as a const binding is
Only(S) == CHOOSE y \in S : TRUE

RECURSIVE Without(_, _)
\* Set.prototype.delete: the remaining members keep their insertion order
Without(s, x) ==
    IF s = <<>> THEN <<>>
    ELSE IF s[1] = x THEN Without(Tail(s), x)
    ELSE <<s[1]>> \o Without(Tail(s), x)

\* set.add(x): x goes to the end unless it is already a member
SetAdd(s, x) == IF x \in Range(s) THEN s ELSE Append(s, x)

\* set.values().next().value and [...set][0]: the first member or undefined
Absent == "undefined"
FirstOf(s) == IF s = <<>> THEN Absent ELSE s[1]

\* Array.prototype.indexOf, 0-based, -1 when not found
IndexOf(s, x) ==
    IF x \in Range(s) THEN (CHOOSE i \in 1..Len(s) : s[i] = x /\ \A j \in 1..(i - 1) : s[j] # x) - 1
    ELSE -1

SeqsUpTo(S, n) == UNION {[1..k -> S] : k \in 0..n}

(***************************************************************************)
(* SelectionManager  (editor-app.js 310-382)                               *)
(***************************************************************************)
Ids == {"a", "b", "c"}      \* node ids: non-empty strings, so every id is truthy
MaxIds == 2                 \* longest id list passed to the constructor / setSelection
MaxOrder == 3               \* longest order passed to focusNext

Truthy(id) == id # Absent

\* the last operation: its name and arguments, and the focused id it found
NoSelOp == [op |-> "new", id |-> Absent, ids |-> <<>>, additive |-> FALSE, focus |-> FALSE, dir |-> 0,
            was |-> Absent]

\* constructor(initialSelection = [])
SelConstructor(initialSelection) ==
    /\ selection = Dedupe(initialSelection)
    /\ focused = FirstOf(Dedupe(initialSelection))
    /\ selOp = [NoSelOp EXCEPT !.ids = initialSelection]

\* the focus after setSelection(ids, focusLast) (330-334)
SetSelectionFocus(cur, ids, focusLast) ==
    IF focusLast
      THEN (IF ids = <<>> THEN Absent ELSE ids[Len(ids)])
    ELSE IF Truthy(cur) /\ cur \notin Range(Dedupe(ids))
      THEN FirstOf(ids)
    ELSE cur

\* setSelection(ids, focusLast = true)
SetSelection(ids, focusLast) ==
    LET next == ids
        sel  == Dedupe(next)
    IN  /\ selection' = sel
        /\ focused' = SetSelectionFocus(focused, next, focusLast)
        /\ selOp' = [NoSelOp EXCEPT !.op = "setSelection", !.ids = ids, !.focus = focusLast, !.was = focused]
        /\ UNCHANGED <<modeVars, ioVars, treeVars, sessVars, otherVars>>

SelectSelectionAdds(sel, id, additive) ==
    LET cleared == IF ~additive THEN <<>> ELSE sel
    IN  SetAdd(cleared, id)
SelectSelection(sel, id, additive) ==
    LET cleared == IF ~additive THEN <<>> ELSE sel
    IN  IF additive /\ id \in Range(cleared) THEN Without(cleared, id) ELSE SetAdd(cleared, id)

SelectRefocusLast(id, additive, focus) ==
    LET sel == SelectSelection(selection, id, additive)
    IN  /\ selection' = sel
        /\ focused' = IF focus THEN id
                      ELSE IF Truthy(focused) /\ focused \notin Range(sel)
                        THEN (IF sel = <<>> THEN Absent ELSE sel[Len(sel)])
                      ELSE focused
        /\ selOp' = [NoSelOp EXCEPT !.op = "select", !.id = id, !.additive = additive, !.focus = focus, !.was = focused]
        /\ UNCHANGED <<modeVars, ioVars, treeVars, sessVars, otherVars>>

\* select(id, { additive = false, focus = true })
Select(id, additive, focus) ==
    LET sel == SelectSelection(selection, id, additive)
    IN  /\ selection' = sel
        /\ focused' = IF focus THEN id
                      ELSE IF Truthy(focused) /\ focused \notin Range(sel) THEN FirstOf(sel)
                      ELSE focused
        /\ selOp' = [NoSelOp EXCEPT !.op = "select", !.id = id, !.additive = additive, !.focus = focus, !.was = focused]
        /\ UNCHANGED <<modeVars, ioVars, treeVars, sessVars, otherVars>>

FocusResultUnfocuses(sel, id) ==
    IF Truthy(id) /\ id \in Range(sel) THEN [selection |-> sel, focused |-> id]
    ELSE IF Truthy(id) THEN [selection |-> <<id>>, focused |-> id]
    ELSE [selection |-> sel, focused |-> Absent]

\* the selection and the focus after focus(id) (353-360)
FocusResult(sel, id) ==
    IF Truthy(id) /\ id \in Range(sel) THEN [selection |-> sel, focused |-> id]
    ELSE IF Truthy(id) THEN [selection |-> <<id>>, focused |-> id]
    ELSE [selection |-> sel, focused |-> FirstOf(sel)]

\* focus(id)
Focus(id) ==
    /\ selection' = FocusResult(selection, id).selection
    /\ focused' = FocusResult(selection, id).focused
    /\ selOp' = [NoSelOp EXCEPT !.op = "focus", !.id = id, !.was = focused]
    /\ UNCHANGED <<modeVars, ioVars, treeVars, sessVars, otherVars>>

FocusNextNoSpecialCase(order, cur, direction) ==
    LET currentIndex == IF Truthy(cur) THEN IndexOf(order, cur) ELSE -1
    IN  (currentIndex + direction + Len(order)) % Len(order)
FocusNextClamped(order, cur, direction) ==
    LET currentIndex == IF Truthy(cur) THEN IndexOf(order, cur) ELSE -1
        moved == currentIndex + direction
    IN  IF currentIndex = -1 THEN 0
        ELSE IF moved < 0 THEN 0
        ELSE IF moved > Len(order) - 1 THEN Len(order) - 1
        ELSE moved
FocusNextIndex(order, cur, direction) ==
    LET currentIndex == IF Truthy(cur) THEN IndexOf(order, cur) ELSE -1
    IN  IF currentIndex = -1 THEN 0 ELSE (currentIndex + direction + Len(order)) % Len(order)

\* focusNext(order, direction = 1)
FocusNext(order, direction) ==
    /\ IF Len(order) = 0
         THEN focused' = Absent /\ selection' = <<>>
       ELSE LET nextId == order[FocusNextIndex(order, focused, direction) + 1]
            IN  selection' = <<nextId>> /\ focused' = nextId
    /\ selOp' = [NoSelOp EXCEPT !.op = "focusNext", !.ids = order, !.dir = direction, !.was = focused]
    /\ UNCHANGED <<modeVars, ioVars, treeVars, sessVars, otherVars>>

\* ensureFocused()
EnsureFocused ==
    /\ selection' = selection
    /\ focused' = IF Truthy(focused) /\ focused \in Range(selection) THEN focused ELSE FirstOf(selection)
    /\ selOp' = [NoSelOp EXCEPT !.op = "ensureFocused", !.was = focused]
    /\ UNCHANGED <<modeVars, ioVars, treeVars, sessVars, otherVars>>


(***************************************************************************)
(* ModeManager  (editor-app.js 238-308).  A switchMode call runs up to its *)
(* first await, is resumed when the awaited policy resolves, and is        *)
(* resumed once more when the awaited gate resolves; other calls and       *)
(* operations run in between.  emitted holds the calls the last step made  *)
(* to the factory, the hooks, the policies and the listeners, in order.    *)
(***************************************************************************)
Modes == {"edit", "play"}
Listeners == {"l1", "l2"}
MaxCalls == 2               \* switchMode calls in flight at the same time

\* values a policy or the dirty predicate can resolve to, and their truthiness
JsValues == {"true", "false", "1", "undefined"}
JsTruthy(v) == v \in {"true", "1"}

\* an event: what was called, its arguments a and b, and this.mode at that time
Ev(ev, a, b, m) == [ev |-> ev, a |-> a, b |-> b, m |-> m]

\* a call: where it waits, its argument, its local "previous" (the mode whose
\* context it is), the gate's answer, and for the record the mode and
\* isDirty() when it was made, the policy invocation it made, whether a
\* recorded markDirty() ran while it waited on that policy, and its result
NoCall == [pc |-> "new", target |-> "edit", previous |-> "none",
           canSwitch |-> "undefined", result |-> "pending",
           modeAtCall |-> "edit", dirtyAtCall |-> FALSE, invoked |-> <<>>, marked |-> FALSE]

\* what options.hasUnsavedChanges?.() can evaluate to: undefined when no
\* predicate is configured, else whatever the predicate returns
PredicateValues(opts) == IF opts.hasUnsavedChanges THEN {"true", "false", "undefined"} ELSE {"undefined"}

\* isDirty(): this.options.hasUnsavedChanges?.() ?? this.dirty
IsDirty(ext, d) == IF ext # "undefined" THEN JsTruthy(ext) ELSE d

\* createOrGetContext(mode), on a record holding the mode, the contexts and
\* the events emitted so far
CreateOrGetContext(st, m) ==
    IF m \in st.contexts THEN st
    ELSE [st EXCEPT !.contexts = @ \cup {m},
                    !.emitted = Append(@, Ev("createContext", m, "", st.mode))]

\* constructor(options, initialMode = 'edit')
ModeConstructor(opts, initialMode) ==
    LET st0 == [mode |-> initialMode, contexts |-> {}, emitted |-> <<>>]
        st1 == CreateOrGetContext(st0, initialMode)
    IN  /\ options = opts
        /\ mode = initialMode
        /\ contexts = st1.contexts
        /\ listeners = <<>>
        /\ dirty = FALSE
        /\ emitted = Append(st1.emitted, Ev("activate", initialMode, "", initialMode))
        /\ calls = [c \in 1..MaxCalls |-> NoCall]
        /\ returned = NoCall

\* the calls after a markDirty(): those suspended in a policy have seen one
MarkedWhileWaiting(cs) ==
    [c \in DOMAIN cs |-> IF cs[c].pc \in {"awaitAutoSave", "awaitConfirm"}
                            THEN [cs[c] EXCEPT !.marked = TRUE] ELSE cs[c]]

\* markDirty()
MarkDirty ==
    /\ dirty' = TRUE
    /\ emitted' = <<>>
    /\ returned' = NoCall
    /\ UNCHANGED <<mode, contexts, listeners, options, calls>>
    /\ UNCHANGED <<selVars, ioVars, treeVars, sessVars, otherVars>>

\* markDirty() again, this time keeping the record of the calls it found
\* suspended in a policy
MarkDirtyRecorded ==
    /\ dirty' = TRUE
    /\ calls' = MarkedWhileWaiting(calls)
    /\ emitted' = <<>>
    /\ returned' = NoCall
    /\ UNCHANGED <<mode, contexts, listeners, options>>
    /\ UNCHANGED <<selVars, ioVars, treeVars, sessVars, otherVars>>

\* clearDirty()
ClearDirty ==
    /\ dirty' = FALSE
    /\ emitted' = <<>>
    /\ returned' = NoCall
    /\ UNCHANGED <<mode, contexts, listeners, options, calls>>
    /\ UNCHANGED <<selVars, ioVars, treeVars, sessVars, otherVars>>

\* subscribe(listener): registered, then called at once with the current mode
Subscribe(l) ==
    /\ listeners' = SetAdd(listeners, l)
    /\ emitted' = <<Ev("notify", l, mode, mode)>>
    /\ returned' = NoCall
    /\ UNCHANGED <<mode, dirty, contexts, options, calls>>
    /\ UNCHANGED <<selVars, ioVars, treeVars, sessVars, otherVars>>

\* the handle returned by subscribe: () => this.listeners.delete(listener)
Unsubscribe(l) ==
    /\ l \in Range(listeners)
    /\ listeners' = Without(listeners, l)
    /\ emitted' = <<>>
    /\ returned' = NoCall
    /\ UNCHANGED <<mode, dirty, contexts, options, calls>>
    /\ UNCHANGED <<selVars, ioVars, treeVars, sessVars, otherVars>>

RECURSIVE DisposeAll(_, _)
\* this.contexts.forEach((context) => context.dispose?.()) (283), the contexts
\* taken in the order edit, play
DisposeAll(st, ms) ==
    IF ms = <<>> THEN st
    ELSE DisposeAll(IF ms[1] \in st.contexts
                      THEN [st EXCEPT !.emitted = Append(@, Ev("dispose", ms[1], "", st.mode))]
                    ELSE st,
                    Tail(ms))

\* the body of destroy() (281-285) on a record holding the mode, the
\* contexts, the listeners and the events emitted so far
DestroyRealizedOnly(st) ==
    [DisposeAll(st, <<"edit", "play">>) EXCEPT !.contexts = {}, !.listeners = <<>>]
DestroyBody(st) ==
    LET st1 == CreateOrGetContext(st, "edit")
        st2 == CreateOrGetContext(st1, "play")
        st3 == DisposeAll(st2, <<"edit", "play">>)
    IN  [st3 EXCEPT !.contexts = {}, !.listeners = <<>>]

\* destroy()
Destroy ==
    LET st == DestroyBody([mode |-> mode, contexts |-> contexts, listeners |-> listeners, emitted |-> <<>>])
    IN  /\ contexts' = st.contexts
        /\ listeners' = st.listeners
        /\ emitted' = st.emitted
        /\ returned' = NoCall
        /\ UNCHANGED <<mode, dirty, options, calls>>
        /\ UNCHANGED <<selVars, ioVars, treeVars, sessVars, otherVars>>

\* handleUnsavedChanges(target) up to its first await, given which policies
\* are configured: the policy it invoked, where the call waits, and the
\* gate's answer so far
GateAutoSaveLast(opts, isDirty, m, target) ==
    IF ~isDirty
      THEN [invoked |-> <<>>, pc |-> "awaitGate", canSwitch |-> "true"]
    ELSE IF opts.confirmSwitch
      THEN [invoked |-> <<Ev("confirmSwitch", m, target, m)>>, pc |-> "awaitConfirm", canSwitch |-> "undefined"]
    ELSE IF opts.autoSave
      THEN [invoked |-> <<Ev("autoSave", "", "", m)>>, pc |-> "awaitAutoSave", canSwitch |-> "undefined"]
    ELSE [invoked |-> <<>>, pc |-> "awaitGate", canSwitch |-> "true"]
GateDefaultBlocks(opts, isDirty, m, target) ==
    IF ~isDirty
      THEN [invoked |-> <<>>, pc |-> "awaitGate", canSwitch |-> "true"]
    ELSE IF opts.autoSave
      THEN [invoked |-> <<Ev("autoSave", "", "", m)>>, pc |-> "awaitAutoSave", canSwitch |-> "undefined"]
    ELSE IF opts.confirmSwitch
      THEN [invoked |-> <<Ev("confirmSwitch", m, target, m)>>, pc |-> "awaitConfirm", canSwitch |-> "undefined"]
    ELSE [invoked |-> <<>>, pc |-> "awaitGate", canSwitch |-> "false"]
GateStart(opts, isDirty, m, target) ==
    IF ~isDirty
      THEN [invoked |-> <<>>, pc |-> "awaitGate", canSwitch |-> "true"]
    ELSE IF opts.autoSave
      THEN [invoked |-> <<Ev("autoSave", "", "", m)>>, pc |-> "awaitAutoSave", canSwitch |-> "undefined"]
    ELSE IF opts.confirmSwitch
      THEN [invoked |-> <<Ev("confirmSwitch", m, target, m)>>, pc |-> "awaitConfirm", canSwitch |-> "undefined"]
    ELSE [invoked |-> <<>>, pc |-> "awaitGate", canSwitch |-> "true"]

\* the slot a new call takes: the lowest free one
\* "if (target === this.mode) return true" (269)
SameModeNever(target, m) == FALSE
SameMode(target, m) == target = m

FreeSlot(c) == calls[c].pc = "new" /\ \A c1 \in 1..(c - 1) : calls[c1].pc # "new"

\* switchMode(target) from the call to its first suspension (269-272); ext is
\* what the dirty predicate evaluates to
SwitchModeCall(c, target, ext) ==
    /\ FreeSlot(c)
    /\ ext \in PredicateValues(options)
    /\ IF SameMode(target, mode)
         THEN /\ returned' = [NoCall EXCEPT !.pc = "done", !.target = target, !.result = "true",
                                            !.modeAtCall = mode, !.dirtyAtCall = IsDirty(ext, dirty)]
              /\ emitted' = <<>>
              /\ UNCHANGED <<contexts, calls>>
       ELSE LET previous == IF mode \in contexts THEN mode ELSE "none"
                st1 == CreateOrGetContext([mode |-> mode, contexts |-> contexts, emitted |-> <<>>], target)
                g   == GateStart(options, IsDirty(ext, dirty), mode, target)
            IN  /\ contexts' = st1.contexts
                /\ emitted' = st1.emitted \o g.invoked
                /\ calls' = [calls EXCEPT ![c] =
                       [pc |-> g.pc, target |-> target, previous |-> previous,
                        canSwitch |-> g.canSwitch, result |-> "pending",
                        modeAtCall |-> mode, dirtyAtCall |-> IsDirty(ext, dirty), invoked |-> g.invoked,
                        marked |-> FALSE]]
                /\ returned' = NoCall
    /\ UNCHANGED <<mode, dirty, listeners, options>>
    /\ UNCHANGED <<selVars, ioVars, treeVars, sessVars, otherVars>>

\* handleUnsavedChanges resumes after "await this.options.autoSave()" (298-299)
AutoSaveResolves(c) ==
    /\ calls[c].pc = "awaitAutoSave"
    /\ dirty' = FALSE
    /\ calls' = [calls EXCEPT ![c] = [@ EXCEPT !.pc = "awaitGate", !.canSwitch = "true"]]
    /\ emitted' = <<>>
    /\ returned' = NoCall
    /\ UNCHANGED <<mode, contexts, listeners, options>>
    /\ UNCHANGED <<selVars, ioVars, treeVars, sessVars, otherVars>>

\* "if (ok) this.clearDirty()" (303): the dirty flag after it
ConfirmDirtyKept(ok, d) == d
ConfirmDirty(ok, d) == IF JsTruthy(ok) THEN FALSE ELSE d

\* handleUnsavedChanges resumes after "await this.options.confirmSwitch(...)"
\* with the value ok (302-304)
ConfirmResolves(c, ok) ==
    /\ calls[c].pc = "awaitConfirm"
    /\ dirty' = ConfirmDirty(ok, dirty)
    /\ calls' = [calls EXCEPT ![c] = [@ EXCEPT !.pc = "awaitGate", !.canSwitch = ok]]
    /\ emitted' = <<>>
    /\ returned' = NoCall
    /\ UNCHANGED <<mode, contexts, listeners, options>>
    /\ UNCHANGED <<selVars, ioVars, treeVars, sessVars, otherVars>>

\* the four statements of switchMode after the gate let it through (274-277),
\* each on a record holding the mode and the events emitted so far
HookDeactivate(st, previous) ==
    IF previous = "none" THEN st
    ELSE [st EXCEPT !.emitted = Append(@, Ev("deactivate", previous, "", st.mode))]
HookActivate(st, next) ==
    [st EXCEPT !.emitted = Append(@, Ev("activate", next, "", st.mode))]
CommitMode(st, target) ==
    [st EXCEPT !.mode = target, !.emitted = Append(@, Ev("commit", target, "", target))]
NotifyNobody(st, ls) == st
NotifyListeners(st, ls) ==
    [st EXCEPT !.emitted = @ \o [i \in 1..Len(ls) |-> Ev("notify", ls[i], st.mode, st.mode)]]

\* "if (!canSwitch) return false" (273)
GateBlocksNever(canSwitch) == FALSE
GateBlocks(canSwitch) == ~JsTruthy(canSwitch)

SwitchModeNotifyFirst(st, call, ls) ==
    CommitMode(HookActivate(HookDeactivate(NotifyListeners(st, ls), call.previous), call.target),
               call.target)
SwitchModeCommit(st, call, ls) ==
    NotifyListeners(CommitMode(HookActivate(HookDeactivate(st, call.previous), call.target),
                               call.target), ls)

\* switchMode resumes after "await this.handleUnsavedChanges(target)" (273-278)
SwitchModeResume(c) ==
    /\ calls[c].pc = "awaitGate"
    /\ IF GateBlocks(calls[c].canSwitch)
         THEN /\ returned' = [calls[c] EXCEPT !.pc = "done", !.result = "false"]
              /\ emitted' = <<>>
              /\ UNCHANGED mode
       ELSE LET st == SwitchModeCommit([mode |-> mode, emitted |-> <<>>], calls[c], listeners)
            IN  /\ mode' = st.mode
                /\ emitted' = st.emitted
                /\ returned' = [calls[c] EXCEPT !.pc = "done", !.result = "true"]
    /\ calls' = [calls EXCEPT ![c] = NoCall]
    /\ UNCHANGED <<dirty, contexts, listeners, options>>
    /\ UNCHANGED <<selVars, ioVars, treeVars, sessVars, otherVars>>

\* "await this.options.autoSave()" (298) or "await this.options.confirmSwitch(
\* ...)" (302) throws because the policy rejected: handleUnsavedChanges and
\* then switchMode reject with it, before line 273
PolicyRejects(c) ==
    /\ calls[c].pc \in {"awaitAutoSave", "awaitConfirm"}
    /\ returned' = [calls[c] EXCEPT !.pc = "done", !.result = "error"]
    /\ calls' = [calls EXCEPT ![c] = NoCall]
    /\ emitted' = <<>>
    /\ UNCHANGED <<mode, dirty, contexts, listeners, options>>
    /\ UNCHANGED <<selVars, ioVars, treeVars, sessVars, otherVars>>

\* lines 274-275 up to the hook that throws: the calls made, the last one
\* marked as the one that threw
SwitchModeFails(st, call, hook) ==
    IF hook = "deactivate"
      THEN [st EXCEPT !.emitted = Append(@, Ev("deactivate", call.previous, "throws", st.mode))]
    ELSE [HookDeactivate(st, call.previous) EXCEPT
             !.emitted = Append(@, Ev("activate", call.target, "throws", st.mode))]

\* switchMode resumes after the gate let it through and the deactivate hook
\* of the previous context, or the activate hook of the next one, throws
SwitchModeThrows(c, hook) ==
    /\ calls[c].pc = "awaitGate"
    /\ ~GateBlocks(calls[c].canSwitch)
    /\ hook = "deactivate" => calls[c].previous # "none"
    /\ emitted' = SwitchModeFails([mode |-> mode, emitted |-> <<>>], calls[c], hook).emitted
    /\ returned' = [calls[c] EXCEPT !.pc = "done", !.result = "error"]
    /\ calls' = [calls EXCEPT ![c] = NoCall]
    /\ UNCHANGED <<mode, dirty, contexts, listeners, options>>
    /\ UNCHANGED <<selVars, ioVars, treeVars, sessVars, otherVars>>

(***************************************************************************)
(* JavaScript values.  A value is a record: t is its type tag, n its       *)
(* number (1 or 0 for a boolean), s its string, a the sequence of its      *)
(* elements (an array) and o the function from its keys to their values    *)
(* (a plain object); the fields a type does not use are left empty.        *)
(***************************************************************************)
JsVal(t, n, s, a, o) == [t |-> t, n |-> n, s |-> s, a |-> a, o |-> o]
Undef  == JsVal("undef", 0, "", <<>>, <<>>)
Null   == JsVal("null", 0, "", <<>>, <<>>)
NaN    == JsVal("nan", 0, "", <<>>, <<>>)
Bool(b) == JsVal("bool", IF b THEN 1 ELSE 0, "", <<>>, <<>>)
Num(n) == JsVal("num", n, "", <<>>, <<>>)
Str(s) == JsVal("str", 0, s, <<>>, <<>>)
Arr(a) == JsVal("arr", 0, "", a, <<>>)
Obj(o) == JsVal("obj", 0, "", <<>>, o)

\* key in obj, obj.key and { ...obj, key: value }
Has(x, k) == k \in DOMAIN x.o
Get(x, k) == IF x.t = "obj" /\ k \in DOMAIN x.o THEN x.o[k] ELSE Undef
Put(x, k, val) == Obj([k1 \in (DOMAIN x.o) \cup {k} |-> IF k1 = k THEN val ELSE x.o[k1]])

\* isObject (6), isFiniteNumber (7), Array.isArray, truthiness, s.trim()
IsObject(x) == x.t = "obj"
IsFiniteNumber(x) == x.t = "num"
IsArray(x) == x.t = "arr"
IsString(x) == x.t = "str"
Blank == {"", " "}
NonEmptyString(x) == x.t = "str" /\ x.s \notin Blank
ValTruthy(x) ==
    CASE x.t \in {"undef", "null", "nan"} -> FALSE
      [] x.t = "bool" -> x.n # 0
      [] x.t = "num" -> x.n # 0
      [] x.t = "str" -> x.s # ""
      [] OTHER -> TRUE

(***************************************************************************)
(* Validator  (editor-app.js 9-164).  An error message is a record: the    *)
(* path it starts with (a sequence of segments key or key[index]), the     *)
(* wording after the path and the quoted id, if any.                       *)
(***************************************************************************)
Seg(k) == [k |-> k, i |-> -1]
SegI(k, i) == [k |-> k, i |-> i]
Err(path, msg, arg) == [path |-> path, msg |-> msg, arg |-> arg]

\* one error per key of keys that is not a finite number (14-18, 27-31)
NumberErrors(value, path, keys) ==
    LET bad == SelectSeq(keys, LAMBDA k : ~IsFiniteNumber(Get(value, k)))
    IN  [i \in 1..Len(bad) |-> Err(path \o <<Seg(bad[i])>>, "must be a finite number", "")]

ValidateVector3(value, path) ==
    IF ~IsObject(value) THEN <<Err(path, "must be an object with x, y, and z numbers", "")>>
    ELSE NumberErrors(value, path, <<"x", "y", "z">>)

ValidateQuaternion(value, path) ==
    IF ~IsObject(value) THEN <<Err(path, "must be an object with x, y, z, and w numbers", "")>>
    ELSE NumberErrors(value, path, <<"x", "y", "z", "w">>)

ValidateTransform(value, path) ==
    IF ~IsObject(value) THEN <<Err(path, "must be an object", "")>>
    ELSE (IF Has(value, "position") THEN ValidateVector3(value.o["position"], path \o <<Seg("position")>>) ELSE <<>>)
      \o (IF Has(value, "rotation") THEN ValidateQuaternion(value.o["rotation"], path \o <<Seg("rotation")>>) ELSE <<>>)
      \o (IF Has(value, "scale") THEN ValidateVector3(value.o["scale"], path \o <<Seg("scale")>>) ELSE <<>>)

ValidateComponent(component, path) ==
    IF ~IsObject(component) THEN <<Err(path, "must be an object", "")>>
    ELSE (IF ~NonEmptyString(Get(component, "type"))
            THEN <<Err(path \o <<Seg("type")>>, "must be a non-empty string", "")>> ELSE <<>>)
      \o (IF Has(component, "data") /\ ~IsObject(component.o["data"])
            THEN <<Err(path \o <<Seg("data")>>, "must be an object when present", "")>> ELSE <<>>)

RECURSIVE FindAssetFrom(_, _, _)
\* assets.find((asset) => asset.id === assetId) from index i on: "found",
\* "missing", or "throw" when it reads .id of a null or undefined entry
FindAssetFrom(entries, i, assetId) ==
    IF i > Len(entries) THEN "missing"
    ELSE IF entries[i].t \in {"null", "undef"} THEN "throw"
    ELSE IF Get(entries[i], "id") = Str(assetId) THEN "found"
    ELSE FindAssetFrom(entries, i + 1, assetId)

FindAsset(entries, assetId) == FindAssetFrom(entries, 1, assetId)

\* validateNodeAssetReference(assetRef, path, assets = []): the errors, and
\* whether it threw
ValidateNodeAssetReference(assetRef, path, assetList) ==
    LET assets == IF assetList = Undef THEN <<>> ELSE assetList.a
        assetId == Get(assetRef, "assetId")
        found == IF IsObject(assetRef) /\ NonEmptyString(assetId) THEN FindAsset(assets, assetId.s) ELSE "skip"
    IN  IF ~IsObject(assetRef) THEN [errors |-> <<Err(path, "must be an object", "")>>, thrown |-> FALSE]
        ELSE [thrown |-> found = "throw",
              errors |->
                 (IF ~NonEmptyString(assetId)
                    THEN <<Err(path \o <<Seg("assetId")>>, "must be a non-empty string", "")>>
                  ELSE IF found # "found"
                    THEN <<Err(path \o <<Seg("assetId")>>, "references missing asset", assetId.s)>>
                  ELSE <<>>)
              \o (IF Has(assetRef, "options") /\ ~IsObject(assetRef.o["options"])
                    THEN <<Err(path \o <<Seg("options")>>, "must be an object when present", "")>> ELSE <<>>)]

\* components.forEach (104-106)
ComponentErrors(components, path) ==
    LET RECURSIVE From(_)
        From(i) == IF i > Len(components) THEN <<>>
                   ELSE ValidateComponent(components[i], path \o <<SegI("components", i - 1)>>) \o From(i + 1)
    IN  From(1)

\* the seen-id set a node hands to the validation of its children (117): the
\* one shared context
ChildSeen(seen) == seen

RECURSIVE ValidateSceneNode(_, _, _, _)
RECURSIVE ValidateNodesFrom(_, _, _, _, _, _)
\* nodes.forEach((node, index) => errors.push(...validateSceneNode(node,
\* `${path}.key[index]`, context))) from index i on; acc holds the errors so
\* far, context.seenIds and whether a call threw
ValidateNodesFrom(nodes, i, path, key, assetList, acc) ==
    IF i > Len(nodes) \/ acc.thrown THEN acc
    ELSE Only({ ValidateNodesFrom(nodes, i + 1, path, key, assetList, next) :
                next \in { [errors |-> acc.errors \o r.errors, seen |-> r.seen, thrown |-> r.thrown] :
                           r \in {ValidateSceneNode(nodes[i], path \o <<SegI(key, i - 1)>>,
                                                    assetList, acc.seen)} } })

\* validateSceneNode(node, path, context) with context = { assets, seenIds }
ValidateSceneNode(node, path, assetList, seen) ==
    IF ~IsObject(node) THEN [errors |-> <<Err(path, "must be an object", "")>>, seen |-> seen, thrown |-> FALSE]
    ELSE
    LET id == Get(node, "id")
        idErrors ==
            IF ~NonEmptyString(id) THEN <<Err(path \o <<Seg("id")>>, "must be a non-empty string", "")>>
            ELSE IF id.s \in seen THEN <<Err(path \o <<Seg("id")>>, "must be unique", id.s)>>
            ELSE <<>>
        seen1 == IF NonEmptyString(id) THEN seen \cup {id.s} ELSE seen
        nameErrors ==
            IF Has(node, "name") /\ ~IsString(node.o["name"])
              THEN <<Err(path \o <<Seg("name")>>, "must be a string when present", "")>> ELSE <<>>
        tagErrors ==
            IF Has(node, "tags") /\ (~IsArray(node.o["tags"])
                                      \/ \E j \in 1..Len(node.o["tags"].a) : ~IsString(node.o["tags"].a[j]))
              THEN <<Err(path \o <<Seg("tags")>>, "must be an array of strings when present", "")>> ELSE <<>>
        transformErrors ==
            IF Has(node, "transform") THEN ValidateTransform(node.o["transform"], path \o <<Seg("transform")>>)
            ELSE <<>>
        componentErrors ==
            IF ~Has(node, "components") THEN <<>>
            ELSE IF ~IsArray(node.o["components"])
              THEN <<Err(path \o <<Seg("components")>>, "must be an array when present", "")>>
            ELSE ComponentErrors(node.o["components"].a, path)
        asset ==
            IF Has(node, "asset") THEN ValidateNodeAssetReference(node.o["asset"], path \o <<Seg("asset")>>, assetList)
            ELSE [errors |-> <<>>, thrown |-> FALSE]
        own == idErrors \o nameErrors \o tagErrors \o transformErrors \o componentErrors \o asset.errors
    IN  IF asset.thrown THEN [errors |-> own, seen |-> seen1, thrown |-> TRUE]
        ELSE IF ~Has(node, "children") THEN [errors |-> own, seen |-> seen1, thrown |-> FALSE]
        ELSE IF ~IsArray(node.o["children"])
          THEN [errors |-> Append(own, Err(path \o <<Seg("children")>>, "must be an array when present", "")),
                seen |-> seen1, thrown |-> FALSE]
        ELSE LET kids == ValidateNodesFrom(node.o["children"].a, 1, path, "children", assetList,
                             [errors |-> own, seen |-> ChildSeen(seen1), thrown |-> FALSE])
             IN  [kids EXCEPT !.seen = @ \cup seen1]

RECURSIVE ValidateAssetsFrom(_, _, _, _)
\* assets.forEach((asset, index) => ...) of validateAssets from index i on
ValidateAssetsFrom(assets, i, path, acc) ==
    IF i > Len(assets) THEN acc.errors
    ELSE LET asset == assets[i]
             assetPath == path \o <<SegI("assets", i - 1)>>
             id == Get(asset, "id")
             idErrors ==
                 IF ~NonEmptyString(id) THEN <<Err(assetPath \o <<Seg("id")>>, "must be a non-empty string", "")>>
                 ELSE IF id.s \in acc.seen THEN <<Err(assetPath \o <<Seg("id")>>, "must be unique", id.s)>>
                 ELSE <<>>
             uriErrors ==
                 IF ~NonEmptyString(Get(asset, "uri"))
                   THEN <<Err(assetPath \o <<Seg("uri")>>, "must be a non-empty string", "")>> ELSE <<>>
             typeErrors ==
                 IF ValTruthy(Get(asset, "type")) /\ ~IsString(Get(asset, "type"))
                   THEN <<Err(assetPath \o <<Seg("type")>>, "must be a string when present", "")>> ELSE <<>>
         IN  IF ~IsObject(asset)
               THEN ValidateAssetsFrom(assets, i + 1, path,
                        [acc EXCEPT !.errors = Append(@, Err(assetPath, "must be an object", ""))])
             ELSE ValidateAssetsFrom(assets, i + 1, path,
                      [errors |-> acc.errors \o idErrors \o uriErrors \o typeErrors,
                       seen |-> IF NonEmptyString(id) THEN acc.seen \cup {id.s} ELSE acc.seen])

\* validateAssets(assets, path): { errors, assetList }, assetList undefined
\* unless assets is an array
ValidateAssets(assets) ==
    IF assets = Undef THEN [errors |-> <<>>, assetList |-> Undef]
    ELSE IF ~IsArray(assets)
      THEN [errors |-> <<Err(<<Seg("assets")>>, "must be an array when present", "")>>, assetList |-> Undef]
    ELSE [errors |-> ValidateAssetsFrom(assets.a, 1, <<>>, [errors |-> <<>>, seen |-> {}]),
          assetList |-> assets]

\* the outcome of a call: what it did ("returned", "threw TypeError", ...),
\* and what it returned
Outcome(kind, valid, errors, value) == [kind |-> kind, valid |-> valid, errors |-> errors, value |-> value]
NoOutcome == Outcome("none", FALSE, <<>>, Undef)

\* validateWorldDocument(world)
ValidateWorldDocument(w) ==
    IF ~IsObject(w) THEN Outcome("returned", FALSE, <<Err(<<>>, "World must be an object", "")>>, Undef)
    ELSE LET a == ValidateAssets(Get(w, "assets"))
             nodes == Get(w, "nodes")
             n == IF ~IsArray(nodes)
                    THEN [errors |-> <<Err(<<Seg("nodes")>>, "must be an array", "")>>, seen |-> {}, thrown |-> FALSE]
                  ELSE ValidateNodesFrom(nodes.a, 1, <<>>, "nodes", a.assetList,
                           [errors |-> <<>>, seen |-> {}, thrown |-> FALSE])
             errors == a.errors \o n.errors
         IN  IF n.thrown THEN Outcome("TypeError", FALSE, <<>>, Undef)
             ELSE Outcome("returned", errors = <<>>, errors, Undef)

(***************************************************************************)
(* Serializer  (editor-app.js 4, 166-181).  A wire text is either          *)
(* malformed or the JSON value it encodes: JSON.stringify leaves out the   *)
(* properties whose value is undefined and writes null for NaN and for an  *)
(* undefined array element; JSON.parse builds the encoded value.           *)
(***************************************************************************)
CURRENT_WORLD_SCHEMA_VERSION == 1

RECURSIVE ToJson(_)
ToJson(x) ==
    CASE x.t = "nan" -> Null
      [] x.t = "arr" -> Arr([i \in 1..Len(x.a) |-> IF x.a[i].t = "undef" THEN Null ELSE ToJson(x.a[i])])
      [] x.t = "obj" -> Obj([k \in {k1 \in DOMAIN x.o : x.o[k1].t # "undef"} |-> ToJson(x.o[k])])
      [] OTHER -> x

NoText == [t |-> "none", json |-> Undef]
Malformed == [t |-> "malformed", json |-> Undef]
JsonStringify(x) == [t |-> "text", json |-> ToJson(x)]
JsonParse(txt) == txt.json

\* ToNumber, as the comparison parsed.version > CURRENT_WORLD_SCHEMA_VERSION
\* applies it: [nan, n]
NotANumber == [nan |-> TRUE, n |-> 0]
Number(n) == [nan |-> FALSE, n |-> n]
StrToNumber(str) ==
    CASE str \in Blank -> Number(0)
      [] str = "0" -> Number(0)
      [] str = "1" -> Number(1)
      [] str = "2" -> Number(2)
      [] OTHER -> NotANumber
ToNumber(x) ==
    CASE x.t = "num" -> Number(x.n)
      [] x.t = "null" -> Number(0)
      [] x.t = "bool" -> Number(x.n)
      [] x.t = "str" -> StrToNumber(x.s)
      [] OTHER -> NotANumber
GreaterOrEqual(x, n) == ~ToNumber(x).nan /\ ToNumber(x).n >= n
GreaterThan(x, n) == ~ToNumber(x).nan /\ ToNumber(x).n > n

\* { ...world, version: CURRENT_WORLD_SCHEMA_VERSION }
StampKept(w) == w
Stamp(w) == Put(w, "version", Num(CURRENT_WORLD_SCHEMA_VERSION))

\* serializeWorld(world)
SerializeSpreadLast(w) ==
    LET validation == ValidateWorldDocument(w)
    IN  IF validation.kind = "TypeError" THEN validation
        ELSE IF ~validation.valid THEN Outcome("invalid", FALSE, validation.errors, Undef)
        ELSE Outcome("ok", TRUE, <<>>, JsonStringify(IF Has(w, "version") THEN w ELSE Stamp(w)))
SerializeWorld(w) ==
    LET validation == ValidateWorldDocument(w)
    IN  IF validation.kind = "TypeError" THEN validation
        ELSE IF ~validation.valid THEN Outcome("invalid", FALSE, validation.errors, Undef)
        ELSE Outcome("ok", TRUE, <<>>, JsonStringify(Stamp(w)))

\* deserializeWorld from line 174 on, for a parsed value that is a plain object
DeserializeValidateFirst(parsed) ==
    LET versioned == IF Get(parsed, "version") = Undef THEN Put(parsed, "version", Num(0)) ELSE parsed
        validation == ValidateWorldDocument(versioned)
    IN  IF validation.kind = "TypeError" THEN validation
        ELSE IF ~validation.valid THEN Outcome("invalid", FALSE, validation.errors, Undef)
        ELSE IF GreaterThan(versioned.o["version"], CURRENT_WORLD_SCHEMA_VERSION)
          THEN Outcome("future", FALSE, <<>>, versioned.o["version"])
        ELSE Outcome("ok", TRUE, <<>>, Stamp(versioned))
DeserializeParsed(parsed) ==
    LET versioned == IF Get(parsed, "version") = Undef THEN Put(parsed, "version", Num(0)) ELSE parsed
        validation == ValidateWorldDocument(versioned)
    IN  IF GreaterThan(versioned.o["version"], CURRENT_WORLD_SCHEMA_VERSION)
          THEN Outcome("future", FALSE, <<>>, versioned.o["version"])
        ELSE IF validation.kind = "TypeError" THEN validation
        ELSE IF ~validation.valid THEN Outcome("invalid", FALSE, validation.errors, Undef)
        ELSE Outcome("ok", TRUE, <<>>, Stamp(versioned))

\* deserializeWorld(serialized).  The file is an ES module, hence strict code:
\* reading .version of null throws, and so does setting .version on a number,
\* a string or a boolean; on an array the assignment succeeds and the
\* validator then rejects the array.
DeserializeWorld(txt) ==
    IF txt.t = "malformed" THEN Outcome("SyntaxError", FALSE, <<>>, Undef)
    ELSE LET parsed == JsonParse(txt)
         IN  IF parsed.t \in {"null", "num", "str", "bool"} THEN Outcome("TypeError", FALSE, <<>>, Undef)
             ELSE IF parsed.t = "arr"
               THEN Outcome("invalid", FALSE, ValidateWorldDocument(parsed).errors, Undef)
             ELSE DeserializeParsed(parsed)

(***************************************************************************)
(* The bounded values the three functions are applied to                   *)
(***************************************************************************)
NodeIds == {"x", "y"}
MaxNodes == 3               \* most nodes of a generated forest
MaxAssets == 2              \* longest generated assets list

RECURSIVE TreesOf(_)
RECURSIVE ForestsOf(_)
\* the trees / forests of exactly n nodes with ids in NodeIds: a node has no
\* children field or a children array
TreesOf(n) ==
    (IF n = 1 THEN {Obj([id |-> Str(i)]) : i \in NodeIds} ELSE {})
    \cup {Obj([id |-> Str(i), children |-> Arr(f)]) : i \in NodeIds, f \in ForestsOf(n - 1)}
ForestsOf(n) ==
    IF n = 0 THEN {<<>>}
    ELSE UNION {{<<tr>> \o f : tr \in TreesOf(k), f \in ForestsOf(n - k)} : k \in 1..n}

Forests == UNION {ForestsOf(n) : n \in 0..MaxNodes}

GoodAsset(id) == Obj([id |-> Str(id), uri |-> Str("u")])
AssetEntries ==
    {GoodAsset("a"), GoodAsset("b"),
     Obj([id |-> Str("a")]),
     Obj([id |-> Str("a"), uri |-> Str("u"), type |-> NaN]),
     Obj([id |-> Str("b"), uri |-> Str("u"), type |-> Num(5), meta |-> Obj([variant |-> Undef])]),
     Obj([id |-> Str(" "), uri |-> Str("u"), type |-> Str("gltf")]),
     Obj([uri |-> Str("u"), type |-> Undef]),
     Null, Str("a")}
AssetLists == {Undef, Null, Str("a")} \cup {Arr(l) : l \in SeqsUpTo(AssetEntries, MaxAssets)}

RefNode(id, ref) == Obj([id |-> Str(id), asset |-> ref])
AssetRefs ==
    {Obj([assetId |-> Str("a")]), Obj([assetId |-> Str("b")]),
     Obj([assetId |-> Str("")]), Obj([assetId |-> Str("a"), options |-> Num(1)]),
     Obj([assetId |-> Str("b"), options |-> Obj([lod |-> Num(2)])]), Null}
RefForests ==
    {<<RefNode("x", r)>> : r \in AssetRefs}
    \cup {<<Obj([id |-> Str("x")]), Obj([id |-> Str("y"), children |-> Arr(<<RefNode("z", Obj([assetId |-> Str("a")]))>>)])>>}

Vec(x, y, z) == Obj([x |-> x, y |-> y, z |-> z])
Decorations ==
    {[name |-> Str("Tree A")], [name |-> Num(1)], [name |-> Undef],
     [tags |-> Arr(<<Str("scene"), Str("foliage")>>)], [tags |-> Arr(<<Str("scene"), Num(1)>>)], [tags |-> Str("scene")],
     [transform |-> Obj([position |-> Vec(Num(2), Num(0), Num(-3))])],
     [transform |-> Obj([position |-> Vec(Num(2), NaN, Str("3")), scale |-> Null])],
     [transform |-> Obj([rotation |-> Obj([x |-> Num(0), y |-> Num(0), z |-> Num(0)])])],
     [transform |-> Obj([rotation |-> Obj([x |-> Num(0), y |-> Num(0), z |-> Num(0), w |-> Num(1)]),
                         scale |-> Vec(Num(1), Num(1), Num(1))])],
     [transform |-> Str("identity")],
     [components |-> Arr(<<Obj([type |-> Str("light"), data |-> Obj([intensity |-> Num(1)])])>>)],
     [components |-> Arr(<<Obj([type |-> Str("light"), data |-> Obj([intensity |-> NaN])])>>)],
     [components |-> Arr(<<Obj([type |-> Str("light")]), Obj([type |-> Str(" "), data |-> Num(32)])>>)],
     [components |-> Arr(<<Null>>)], [components |-> Obj(<<>>)],
     [children |-> Null],
     [children |-> Arr(<<Str("x"), Obj([id |-> Num(1)]), Obj([name |-> Str("n")])>>)],
     [name |-> Str("Tree A"), tags |-> Arr(<<>>), transform |-> Obj(<<>>), components |-> Arr(<<>>),
      asset |-> Obj([assetId |-> Str("a")]), children |-> Arr(<<Obj([id |-> Str("y")])>>)]}
DecoratedForests == {<<Put(Obj(d), "id", Str("x"))>> : d \in Decorations} \cup {<<Num(1)>>, <<Null>>}

Versions == {Undef, Num(0), Num(1), Num(2), Num(999), Num(-1), Str("2"), Str("x"), Null}
Metadatas ==
    {Undef, Obj([title |-> Str("Demo Park")]), Obj([title |-> Undef]), Obj([seed |-> NaN]),
     Arr(<<Undef>>), Null}
TopBodies ==
    {[nodes |-> Arr(<<>>)], [nodes |-> Arr(<<Obj([id |-> Str("x")])>>)],
     [nodes |-> Arr(<<Obj([id |-> Str("x")]), Obj([id |-> Str("x")])>>)],
     [nodes |-> Obj(<<>>)], [assets |-> Arr(<<>>)],
     [assets |-> Arr(<<GoodAsset("a")>>), nodes |-> Arr(<<RefNode("x", Obj([assetId |-> Str("a")]))>>)],
     [assets |-> Arr(<<Null>>), nodes |-> Arr(<<RefNode("x", Obj([assetId |-> Str("a")])), Obj([id |-> Str("x")])>>)]}

\* a record with key k set to val unless val is left out (given as Undef by
\* the generator; an explicit undefined is generated apart)
With(o, k, val) == IF val = Undef THEN o ELSE Put(o, k, val)

Docs ==
    {Undef, Null, NaN, Num(3), Str("world"), Bool(TRUE), Arr(<<>>), Arr(<<Num(1)>>), Obj(<<>>)}
    \cup {Obj([nodes |-> Arr(f)]) : f \in Forests \cup DecoratedForests}
    \cup {Obj([assets |-> Arr(<<GoodAsset("a")>>), nodes |-> Arr(f)]) : f \in DecoratedForests}
    \cup {Obj([assets |-> a, nodes |-> Arr(f)]) : a \in AssetLists, f \in RefForests \cup {<<>>}}
    \cup {With(With(Obj(b), "version", ver), "metadata", m) : b \in TopBodies, ver \in Versions, m \in Metadatas}
    \cup {Obj([version |-> Undef, nodes |-> Arr(<<>>)])}

\* the text of a file holding the JSON encoding of w
FileText(w) == JsonStringify(w)

(***************************************************************************)
(* Initial values of the variables a specification does not use            *)
(***************************************************************************)
(***************************************************************************)
(* updateNodeById  (editor-app.js 395-415)                                 *)
(*                                                                         *)
(* Object identity matters here, so every node object and every array      *)
(* carries a reference: Original(path) for an object of the input, which   *)
(* stands at that path, Copied(path) for the object that updateNodeById    *)
(* creates for the node at that path ({ ...nextNode, children } or the     *)
(* mapped array), Returned(path) for a new object the updater returns for  *)
(* that node.  A node holds its own fields other than children as a record *)
(* value o, whether it has a children key (ckey), and its children array.  *)
(***************************************************************************)
Original(path) == [new |-> 0, at |-> path]
CopiedInPlace(path) == [new |-> 0, at |-> path]
Copied(path) == [new |-> 1, at |-> path]
Returned(path) == [new |-> 2, at |-> path]
NoKids == [ref |-> Original(<<0>>), items |-> <<>>]

RECURSIVE TagNodes(_, _)
\* the forest of record values nodes as objects in memory, each a distinct
\* object
TagNode(v, path) ==
    [ref |-> Original(path),
     o |-> Obj([k \in DOMAIN v.o \ {"children"} |-> v.o[k]]),
     ckey |-> IF ~Has(v, "children") THEN "absent"
              ELSE IF IsArray(v.o["children"]) THEN "array" ELSE "undefined",
     kids |-> IF Has(v, "children") /\ IsArray(v.o["children"])
                THEN [ref |-> Original(path), items |-> TagNodes(v.o["children"].a, path)]
              ELSE NoKids]
TagNodes(items, path) == [i \in 1..Len(items) |-> TagNode(items[i], path \o <<i>>)]
Tag(items) == [ref |-> Original(<<>>), items |-> TagNodes(items, <<>>)]

RECURSIVE UntagNodes(_)
\* the record values of a forest in memory
UntagNode(node) ==
    IF node.ckey = "absent" THEN node.o
    ELSE IF node.ckey = "undefined" THEN Put(node.o, "children", Undef)
    ELSE Put(node.o, "children", Arr(UntagNodes(node.kids.items)))
UntagNodes(items) == [i \in 1..Len(items) |-> UntagNode(items[i])]
Untag(arr) == Arr(UntagNodes(arr.items))

\* the updaters: one that returns nothing, one that returns its argument,
\* ({ ...current, name: 'renamed' }), and ({ ...current, children: [] })
Updaters == {"decline", "same", "rename", "prune"}
Updater(upd, node) ==
    CASE upd = "rename" -> [node EXCEPT !.ref = Returned(node.ref.at),
                                        !.o = Put(node.o, "name", Str("renamed"))]
      [] upd = "prune" -> [node EXCEPT !.ref = Returned(node.ref.at), !.ckey = "array",
                                       !.kids = [ref |-> Returned(node.ref.at), items |-> <<>>]]
      [] OTHER -> node

\* "if (node.children)" (404): whether the children of node are visited
DescendUnlessHit(node, hit) == node.ckey = "array" /\ ~hit
Descend(node, hit) == node.ckey = "array"

\* "if (node.children !== children || nextNode !== node)" (409)
RebuiltAlways(node, nextNode, children) == TRUE
Rebuilt(node, nextNode, children) == node.kids.ref # children.ref \/ nextNode.ref # node.ref

RECURSIVE UpdateNodeById(_, _, _)
RECURSIVE UpdateItems(_, _, _, _)
\* lines 409-412 for one node, given nextNode and the outcome rec of the
\* call on its children
RebuildOne(node, hit, nextNode, rec) ==
    [node |-> IF Rebuilt(node, nextNode, rec.nodes)
                THEN [ref |-> Copied(node.ref.at), o |-> nextNode.o,
                      ckey |-> IF node.ckey = "array" THEN "array" ELSE "undefined",
                      kids |-> rec.nodes]
              ELSE nextNode,
     changed |-> (hit /\ nextNode.ref # node.ref) \/ rec.changed,
     applied |-> (IF hit THEN <<node.ref>> ELSE <<>>) \o rec.applied]
\* the callback of nodes.map (397-413) for one node
UpdateOne(node, id, upd) ==
    LET hit == Get(node.o, "id") = Str(id)
    IN  Only({ Only({ RebuildOne(node, hit, nextNode, rec) :
                      rec \in {IF Descend(node, hit) THEN UpdateNodeById(node.kids, id, upd)
                               ELSE [nodes |-> node.kids, changed |-> FALSE, applied |-> <<>>]} }) :
               nextNode \in {IF hit THEN Updater(upd, node) ELSE node} })
UpdateItems(items, i, id, upd) ==
    IF i > Len(items) THEN [mapped |-> <<>>, changed |-> FALSE, applied |-> <<>>]
    ELSE Only({ [mapped |-> <<one.node>> \o rest.mapped,
                 changed |-> one.changed \/ rest.changed,
                 applied |-> one.applied \o rest.applied] :
                one \in {UpdateOne(items[i], id, upd)},
                rest \in {UpdateItems(items, i + 1, id, upd)} })
\* updateNodeById(nodes, id, updater)
UpdateNodeById(nodes, id, upd) ==
    Only({ [nodes |-> IF r.changed THEN [ref |-> Copied(nodes.ref.at), items |-> r.mapped] ELSE nodes,
            changed |-> r.changed,
            applied |-> r.applied] :
           r \in {UpdateItems(nodes.items, 1, id, upd)} })

NoTreeCall == [id |-> "", updater |-> "none"]
NoTreeResult == [nodes |-> Tag(<<>>), changed |-> FALSE, applied |-> <<>>]

SelIdle == SelConstructor(<<>>)
ModeIdle ==
    /\ ModeConstructor([autoSave |-> FALSE, confirmSwitch |-> FALSE, hasUnsavedChanges |-> FALSE], "edit")

TreeIdle ==
    /\ forest = Tag(<<>>)
    /\ tcall = NoTreeCall
    /\ tres = NoTreeResult
\* hashString(input) (821-828).  A text of the model is the value it denotes
\* and has no characters to fold, so the fingerprint of a text is kept as the
\* text it was computed over.
HashString(input) == [hashOf |-> input]
\* the object handleExport returns (892), and none
Package(hash, w, exportedAt) == [hash |-> hash, world |-> w, exportedAt |-> exportedAt]
NoPackage == Package(HashString(NoText), Undef, "")
NoSessOp == [op |-> "new", changed |-> FALSE, replaced |-> FALSE, id |-> "", updater |-> "none",
             outcome |-> "none", payload |-> NoText, pkg |-> NoPackage, file |-> NoText]
SessIdle ==
    /\ owned = Undef
    /\ sessDirty = FALSE
    /\ sessOp = NoSessOp
IoIdle ==
    /\ world = Undef
    /\ text = NoText
    /\ textFrom = "none"
    /\ vres = NoOutcome
    /\ sres = NoOutcome
    /\ dres = NoOutcome
\* findNodeById returns a node object: the model names it by the position it
\* stands at, with its value; NotFound is undefined
NotFound == [path |-> <<>>, node |-> Undef]
NoFind == [called |-> FALSE, id |-> "", result |-> NotFound]
NoListing == [called |-> FALSE, ids |-> <<>>]
QueryIdle ==
    /\ qfound = NoFind
    /\ listed = NoListing
\* a texture object: the url it was loaded from and the load that made it
Texture(url, load) == [url |-> url, load |-> load]
NoTexture == Texture("null", 0)
NoUrl == "null"
ExprConstructor(fallback) ==
    /\ fallbackUrl = fallback
    /\ lastUrl = NoUrl
    /\ currentTexture = NoTexture
    /\ spriteMap = NoTexture
    /\ loads = <<>>
    /\ textureLog = [applied |-> <<>>, disposed |-> {}]
ExprIdle == ExprConstructor(NoUrl)
\* the two iframes with a load handler: the popup's and the settings panel's
Frames == {"popup", "panel"}
NoMessage == "null"
\* the module state of the chat bridge (chatSyncState, 964-968), no frame
\* in the document
ChatIdle ==
    /\ chat = NoMessage
    /\ lastSignature = NoMessage
    /\ frames = [f \in Frames |-> "none"]
    /\ inbox = [f \in Frames |-> {}]
OtherIdle ==
    /\ QueryIdle
    /\ ExprIdle
    /\ ChatIdle

(***************************************************************************)
(* IoSpec: the three functions applied once each to a generated value      *)
(***************************************************************************)
Validate ==
    /\ vres = NoOutcome
    /\ vres' = ValidateWorldDocument(world)
    /\ UNCHANGED <<world, text, textFrom, sres, dres>>
    /\ UNCHANGED <<selVars, modeVars, treeVars, sessVars, otherVars>>

Serialize ==
    /\ sres = NoOutcome
    /\ textFrom = "none"
    /\ sres' = SerializeWorld(world)
    /\ IF sres'.kind = "ok"
         THEN text' = sres'.value /\ textFrom' = "serialize"
       ELSE UNCHANGED <<text, textFrom>>
    /\ UNCHANGED <<world, vres, dres>>
    /\ UNCHANGED <<selVars, modeVars, treeVars, sessVars, otherVars>>

Deserialize ==
    /\ dres = NoOutcome
    /\ textFrom # "none"
    /\ dres' = DeserializeWorld(text)
    /\ UNCHANGED <<world, text, textFrom, vres, sres>>
    /\ UNCHANGED <<selVars, modeVars, treeVars, sessVars, otherVars>>

IoInit ==
    /\ OtherIdle
    /\ SelIdle
    /\ ModeIdle
    /\ TreeIdle
    /\ SessIdle
    /\ world \in Docs
    /\ \/ text = NoText /\ textFrom = "none"
       \/ text = Malformed /\ textFrom = "file"
       \/ world # Undef /\ text = FileText(world) /\ textFrom = "file"
    /\ vres = NoOutcome
    /\ sres = NoOutcome
    /\ dres = NoOutcome

IoNext ==
    \/ Validate
    \/ Serialize
    \/ Deserialize

IoSpec == IoInit /\ [][IoNext]_vars

(***************************************************************************)
(* SelSpec                                                                 *)
(***************************************************************************)
SelInit ==
    /\ OtherIdle
    /\ \E initialSelection \in SeqsUpTo(Ids, MaxIds) : SelConstructor(initialSelection)
    /\ ModeIdle
    /\ IoIdle
    /\ TreeIdle
    /\ SessIdle

SelNext ==
    \/ \E ids \in SeqsUpTo(Ids, MaxIds), focusLast \in BOOLEAN : SetSelection(ids, focusLast)
    \/ \E id \in Ids, additive \in BOOLEAN, focus \in BOOLEAN : Select(id, additive, focus)
    \/ \E id \in Ids \cup {Absent} : Focus(id)
    \/ \E order \in SeqsUpTo(Ids, MaxOrder), direction \in {1, -1} : FocusNext(order, direction)
    \/ EnsureFocused

SelSpec == SelInit /\ [][SelNext]_vars

(***************************************************************************)
(* ModeSpec                                                                *)
(***************************************************************************)
ModeOptions == [autoSave : BOOLEAN, confirmSwitch : BOOLEAN, hasUnsavedChanges : BOOLEAN]

ModeInit ==
    /\ OtherIdle
    /\ \E opts \in ModeOptions, initialMode \in Modes : ModeConstructor(opts, initialMode)
    /\ SelIdle
    /\ IoIdle
    /\ TreeIdle
    /\ SessIdle

ModeNext ==
    \/ MarkDirty
    \/ ClearDirty
    \/ \E l \in Listeners : Subscribe(l)
    \/ \E l \in Listeners : Unsubscribe(l)
    \/ \E c \in 1..MaxCalls, target \in Modes, ext \in {"true", "false", "undefined"} :
          SwitchModeCall(c, target, ext)
    \/ \E c \in 1..MaxCalls : AutoSaveResolves(c)
    \/ \E c \in 1..MaxCalls, ok \in JsValues : ConfirmResolves(c, ok)
    \/ \E c \in 1..MaxCalls : SwitchModeResume(c)

ModeSpec == ModeInit /\ [][ModeNext]_vars

\* the machine with its teardown: destroy() at any moment, also while a
\* switchMode is suspended in its gate
MaxCallsAtDestroy == 1      \* switchMode calls in flight at the same time
DestroyNext ==
    \/ MarkDirty
    \/ ClearDirty
    \/ \E l \in Listeners : Subscribe(l)
    \/ \E l \in Listeners : Unsubscribe(l)
    \/ \E c \in 1..MaxCallsAtDestroy, target \in Modes, ext \in {"true", "false", "undefined"} :
          SwitchModeCall(c, target, ext)
    \/ \E c \in 1..MaxCallsAtDestroy : AutoSaveResolves(c)
    \/ \E c \in 1..MaxCallsAtDestroy, ok \in JsValues : ConfirmResolves(c, ok)
    \/ \E c \in 1..MaxCallsAtDestroy : SwitchModeResume(c)
    \/ Destroy

DestroySpec == ModeInit /\ [][DestroyNext]_vars

\* the machine and a client that marks it dirty at any moment, also while a
\* switchMode is suspended in a policy
RaceNext ==
    \/ MarkDirtyRecorded
    \/ ClearDirty
    \/ \E c \in 1..MaxCalls, target \in Modes, ext \in {"true", "false", "undefined"} :
          SwitchModeCall(c, target, ext)
    \/ \E c \in 1..MaxCalls : AutoSaveResolves(c)
    \/ \E c \in 1..MaxCalls, ok \in JsValues : ConfirmResolves(c, ok)
    \/ \E c \in 1..MaxCalls : SwitchModeResume(c)

RaceSpec == ModeInit /\ [][RaceNext]_vars

\* the machine with policies that can reject and hooks that can throw
MaxFaultCalls == 1          \* switchMode calls in flight at the same time
Hooks == {"deactivate", "activate"}
FaultNext ==
    \/ MarkDirty
    \/ ClearDirty
    \/ \E l \in Listeners : Subscribe(l)
    \/ \E l \in Listeners : Unsubscribe(l)
    \/ \E c \in 1..MaxFaultCalls, target \in Modes, ext \in {"true", "false", "undefined"} :
          SwitchModeCall(c, target, ext)
    \/ \E c \in 1..MaxFaultCalls : AutoSaveResolves(c)
    \/ \E c \in 1..MaxFaultCalls, ok \in JsValues : ConfirmResolves(c, ok)
    \/ \E c \in 1..MaxFaultCalls : SwitchModeResume(c)
    \/ \E c \in 1..MaxFaultCalls : PolicyRejects(c)
    \/ \E c \in 1..MaxFaultCalls, hook \in Hooks : SwitchModeThrows(c, hook)

FaultSpec == ModeInit /\ [][FaultNext]_vars

(***************************************************************************)
(* TreeSpec: updateNodeById applied to a forest                            *)
(***************************************************************************)
TargetIds == NodeIds \cup {"z"}

Update(id, upd) ==
    /\ tcall' = [id |-> id, updater |-> upd]
    /\ tres' = UpdateNodeById(forest, id, upd)
    /\ UNCHANGED forest
    /\ UNCHANGED <<selVars, modeVars, ioVars, sessVars, otherVars>>

TreeInit ==
    /\ OtherIdle
    /\ \E f \in Forests : forest = Tag(f)
    /\ tcall = NoTreeCall
    /\ tres = NoTreeResult
    /\ SelIdle
    /\ ModeIdle
    /\ IoIdle
    /\ SessIdle

TreeNext == \E id \in TargetIds, upd \in Updaters : Update(id, upd)

TreeSpec == TreeInit /\ [][TreeNext]_vars

(***************************************************************************)
(* SessionSpec: the EditorApp component  (editor-app.js 830-893)           *)
(*                                                                         *)
(* The session owns the world document, a SelectionManager, a dirty state  *)
(* and a ModeManager built with an autoSave policy and a hasUnsavedChanges *)
(* predicate.  A handler is one step: the state updates it queues and the  *)
(* effect that follows the render are part of it.                          *)
(***************************************************************************)
\* DEFAULT_WORLD (183-236); the numbers 1.2 and 32 of the component data are
\* finite numbers and stand here as 1 and 32
DEFAULT_WORLD ==
    Obj([version |-> Num(1),
         metadata |-> Obj([title |-> Str("Demo Park"), author |-> Str("World Engine"),
                           description |-> Str("Sample scene showcasing the authoring pipeline.")]),
         assets |-> Arr(<<Obj([id |-> Str("hero-tree"), uri |-> Str("/assets/tree.gltf"),
                               type |-> Str("gltf"), meta |-> Obj([variant |-> Str("pine")])]),
                          Obj([id |-> Str("campfire-audio"), uri |-> Str("/assets/campfire.ogg"),
                               type |-> Str("audio")])>>),
         nodes |-> Arr(<<
           Obj([id |-> Str("root"), name |-> Str("World root"), tags |-> Arr(<<Str("scene")>>),
                children |-> Arr(<<
                  Obj([id |-> Str("camp"), name |-> Str("Camp clearing"),
                       transform |-> Obj([position |-> Vec(Num(2), Num(0), Num(-3))]),
                       components |-> Arr(<<Obj([type |-> Str("light"),
                                                 data |-> Obj([intensity |-> Num(1)])])>>),
                       children |-> Arr(<<
                         Obj([id |-> Str("fire"), name |-> Str("Campfire"),
                              asset |-> Obj([assetId |-> Str("campfire-audio")]),
                              components |-> Arr(<<Obj([type |-> Str("emitter"),
                                                        data |-> Obj([rate |-> Num(32)])])>>)])>>)]),
                  Obj([id |-> Str("trees"), name |-> Str("Tree cluster"),
                       tags |-> Arr(<<Str("foliage")>>),
                       children |-> Arr(<<
                         Obj([id |-> Str("tree-1"), name |-> Str("Tree A"),
                              asset |-> Obj([assetId |-> Str("hero-tree")]),
                              transform |-> Obj([position |-> Vec(Num(-4), Num(0), Num(2))])]),
                         Obj([id |-> Str("tree-2"), name |-> Str("Tree B"),
                              asset |-> Obj([assetId |-> Str("hero-tree")]),
                              transform |-> Obj([position |-> Vec(Num(-6), Num(0), Num(4))])])>>)])>>)])>>)])

RECURSIVE FlattenFrom(_, _)
\* flattenNodeIds(nodes) (417), on the nodes of a document whose nodes are
\* records
FlattenFrom(nodes, i) ==
    IF i > Len(nodes) THEN <<>>
    ELSE <<Get(nodes[i], "id").s>>
         \o (IF ValTruthy(Get(nodes[i], "children")) THEN FlattenFrom(Get(nodes[i], "children").a, 1) ELSE <<>>)
         \o FlattenFrom(nodes, i + 1)
FlattenNodeIds(nodes) == FlattenFrom(nodes, 1)

RECURSIVE FindFrom(_, _, _, _, _)
FindFromSiblingsFirst(nodes, i, id, path, key) ==
    IF \E k \in 1..Len(nodes) : Get(nodes[k], "id") = Str(id)
      THEN LET k == CHOOSE k \in 1..Len(nodes) :
                        /\ Get(nodes[k], "id") = Str(id)
                        /\ \A k1 \in 1..(k - 1) : Get(nodes[k1], "id") # Str(id)
           IN  [path |-> path \o <<SegI(key, k - 1)>>, node |-> nodes[k]]
    ELSE IF i > Len(nodes) THEN NotFound
    ELSE LET here == path \o <<SegI(key, i - 1)>>
         IN  Only({ IF child # NotFound THEN child ELSE FindFrom(nodes, i + 1, id, path, key) :
                    child \in {IF ValTruthy(Get(nodes[i], "children"))
                                 THEN FindFrom(Get(nodes[i], "children").a, 1, id, here, "children")
                               ELSE NotFound} })
\* findNodeById(nodes, id) (384-393) from the i-th node on, on nodes that are
\* records; path and key locate nodes in the document
FindFrom(nodes, i, id, path, key) ==
    IF i > Len(nodes) THEN NotFound
    ELSE LET node == nodes[i]
             here == path \o <<SegI(key, i - 1)>>
         IN  IF Get(node, "id") = Str(id) THEN [path |-> here, node |-> node]
             ELSE Only({ IF child # NotFound THEN child ELSE FindFrom(nodes, i + 1, id, path, key) :
                         child \in {IF ValTruthy(Get(node, "children"))
                                      THEN FindFrom(Get(node, "children").a, 1, id, here, "children")
                                    ELSE NotFound} })
FindNodeById(nodes, id) == FindFrom(nodes, 1, id, <<>>, "nodes")

\* the effect of lines 855-860, run after a render in which world.nodes
\* changed: with nothing focused and a root present, the first root is selected
EffectSelectFirst(st) ==
    IF ~Truthy(st.focused) /\ Len(Get(st.owned, "nodes").a) > 0
      THEN LET ids == <<Get(Get(st.owned, "nodes").a[1], "id").s>>
           IN  [st EXCEPT !.selection = Dedupe(ids), !.focused = SetSelectionFocus(st.focused, ids, TRUE)]
    ELSE st

\* the function handed to setWorld by updateNode (863-870), applied to the
\* current document: the next document, whether it is another object, and
\* whether setDirty(true) and markDirty() were called
UpdateNodeAlways(current, id, upd) ==
    Only({ [doc |-> Put(current, "nodes", Untag(r.nodes)), ref |-> Copied(<<>>),
            changed |-> r.changed, dirtied |-> TRUE] :
           r \in {UpdateNodeById(Tag(Get(current, "nodes").a), id, upd)} })
UpdateNodeBody(current, id, upd) ==
    Only({ IF ~r.changed
             THEN [doc |-> current, ref |-> Original(<<>>), changed |-> FALSE, dirtied |-> FALSE]
           ELSE [doc |-> Put(current, "nodes", Untag(r.nodes)), ref |-> Copied(<<>>),
                 changed |-> TRUE, dirtied |-> TRUE] :
           r \in {UpdateNodeById(Tag(Get(current, "nodes").a), id, upd)} })

\* updateNode(id, updater)
UpdateNode(id, upd) ==
    \E u \in {UpdateNodeBody(owned, id, upd)} :
    \E st \in {IF u.ref # Original(<<>>)
                  THEN EffectSelectFirst([owned |-> u.doc, selection |-> selection, focused |-> focused])
                ELSE [owned |-> u.doc, selection |-> selection, focused |-> focused]} :
        /\ owned' = st.owned
        /\ selection' = st.selection
        /\ focused' = st.focused
        /\ sessDirty' = (IF u.dirtied THEN TRUE ELSE sessDirty)
        /\ dirty' = (IF u.dirtied THEN TRUE ELSE dirty)
        /\ sessOp' = [NoSessOp EXCEPT !.op = "updateNode", !.id = id, !.updater = upd,
                                      !.changed = u.changed, !.replaced = (u.ref # Original(<<>>))]
        /\ UNCHANGED <<selOp, mode, contexts, listeners, options, calls, returned, emitted>>
        /\ UNCHANGED <<ioVars, treeVars, otherVars>>

\* handleFocusRequest(id) (875-878)
HandleFocusRequest(id) ==
    /\ selection' = FocusResult(selection, id).selection
    /\ focused' = FocusResult(selection, id).focused
    /\ sessOp' = [NoSessOp EXCEPT !.op = "focus", !.id = id]
    /\ UNCHANGED <<owned, sessDirty, selOp>>
    /\ UNCHANGED <<modeVars, ioVars, treeVars, otherVars>>

\* the value JSON.stringify(pkg, null, 2) encodes (475): the hash and the
\* date are strings
PackageJson(pkg) ==
    Obj([hash |-> Str("hash"), world |-> pkg.world, exportedAt |-> Str(pkg.exportedAt)])

\* handleExport() (890-893): the package, or the error serializeWorld threw
ExportBody(w) ==
    Only({ IF serialized.kind # "ok" THEN [kind |-> serialized.kind, pkg |-> NoPackage]
           ELSE [kind |-> "ok", pkg |-> Package(HashString(serialized.value), w, "now")] :
           serialized \in {SerializeWorld(w)} })

\* the export of the menu (468-488): onExport() and, when it returned, the
\* content of the file world.json
HandleExport ==
    \E e \in {ExportBody(owned)} :
        /\ sessOp' = [NoSessOp EXCEPT !.op = "export", !.outcome = e.kind, !.pkg = e.pkg,
                                      !.file = IF e.kind = "ok" THEN JsonStringify(PackageJson(e.pkg))
                                               ELSE NoText]
        /\ UNCHANGED <<owned, sessDirty, selection, focused, selOp>>
        /\ UNCHANGED <<modeVars, ioVars, treeVars, otherVars>>

\* "first ? [first] : []" (883-884): the ids handed to setSelection
ImportSelectionAll(nextWorld) == FlattenNodeIds(Get(nextWorld, "nodes").a)
ImportSelection(nextWorld) ==
    LET nodes == Get(nextWorld, "nodes").a
    IN  IF Len(nodes) > 0 /\ ValTruthy(Get(nodes[1], "id")) THEN <<Get(nodes[1], "id").s>> ELSE <<>>

\* handleImport(payload): deserializeWorld throws before any state is touched
\* (HandleImportClearsFirst: were the dirty state reset before line 881)
HandleImportClearsFirst(payload) ==
    \E d \in {DeserializeWorld(payload)} :
        /\ sessOp' = [NoSessOp EXCEPT !.op = "import", !.outcome = d.kind, !.payload = payload]
        /\ IF d.kind # "ok"
             THEN /\ UNCHANGED <<owned, selection, focused>>
                  /\ sessDirty' = FALSE
                  /\ dirty' = FALSE
           ELSE \E st \in {EffectSelectFirst([owned |-> d.value,
                                 selection |-> Dedupe(ImportSelection(d.value)),
                                 focused |-> SetSelectionFocus(focused, ImportSelection(d.value), TRUE)])} :
                    /\ owned' = st.owned
                    /\ selection' = st.selection
                    /\ focused' = st.focused
                    /\ sessDirty' = FALSE
                    /\ dirty' = FALSE
        /\ UNCHANGED <<selOp, mode, contexts, listeners, options, calls, returned, emitted>>
        /\ UNCHANGED <<ioVars, treeVars, otherVars>>
HandleImport(payload) ==
    \E d \in {DeserializeWorld(payload)} :
        /\ sessOp' = [NoSessOp EXCEPT !.op = "import", !.outcome = d.kind, !.payload = payload]
        /\ IF d.kind # "ok"
             THEN UNCHANGED <<owned, selection, focused, sessDirty, dirty>>
           ELSE \E st \in {EffectSelectFirst([owned |-> d.value,
                                 selection |-> Dedupe(ImportSelection(d.value)),
                                 focused |-> SetSelectionFocus(focused, ImportSelection(d.value), TRUE)])} :
                    /\ owned' = st.owned
                    /\ selection' = st.selection
                    /\ focused' = st.focused
                    /\ sessDirty' = FALSE
                    /\ dirty' = FALSE
        /\ UNCHANGED <<selOp, mode, contexts, listeners, options, calls, returned, emitted>>
        /\ UNCHANGED <<ioVars, treeVars, otherVars>>

\* the files offered to the import: malformed text, and the texts of a few
\* values
ImportDocs ==
    {Obj([nodes |-> Arr(<<>>)]),
     Obj([version |-> Num(1), nodes |-> Arr(<<Obj([id |-> Str("x")])>>)]),
     Obj([nodes |-> Arr(<<Obj([id |-> Str("x"), children |-> Arr(<<Obj([id |-> Str("y")])>>)]),
                          Obj([id |-> Str("z"), name |-> Str("n")])>>)]),
     Obj([version |-> Num(999), nodes |-> Arr(<<>>)]),
     Obj([nodes |-> Arr(<<Obj([id |-> Str("x")]), Obj([id |-> Str("x")])>>)]),
     Null}
ImportTexts == {Malformed} \cup {FileText(d) : d \in ImportDocs}
\* the ids given to updateNode and handleFocusRequest: an inner node and two
\* leaves of DEFAULT_WORLD, the ids of the imported documents, and an id
\* that no document holds
EditedIds == {"root", "fire", "tree-1", "x", "y", "none"}
SessionIds(doc) == EditedIds \cap (Range(FlattenNodeIds(Get(doc, "nodes").a)) \cup {"none"})

MaxSessionCalls == 1        \* switchMode calls of the session in flight at the same time

\* the component after its first render and effect
SessionInit ==
    /\ OtherIdle
    /\ ModeConstructor([autoSave |-> TRUE, confirmSwitch |-> FALSE, hasUnsavedChanges |-> TRUE], "edit")
    /\ owned = DEFAULT_WORLD
    /\ selection = <<"root">>
    /\ focused = "root"
    /\ selOp = NoSelOp
    /\ sessDirty = FALSE
    /\ sessOp = NoSessOp
    /\ IoIdle
    /\ TreeIdle

\* the file the last export wrote, which the import can be given
ExportedFiles == IF sessOp.file = NoText THEN {} ELSE {sessOp.file}

\* "hasUnsavedChanges: () => dirty" (848): the function is made once, by the
\* initializer of useState (834), in the first render; the dirty it reads is
\* the constant of that render, useState(false) (832)
HasUnsavedChanges == "false"

SessionNext ==
    \/ \E id \in SessionIds(owned), upd \in Updaters : UpdateNode(id, upd)
    \/ \E id \in SessionIds(owned) \ {"none"} : HandleFocusRequest(id)
    \/ \E payload \in ImportTexts \cup ExportedFiles : HandleImport(payload)
    \/ HandleExport

SessionSpec == SessionInit /\ [][SessionNext]_vars

\* the session with its mode switch: handleUnsavedChanges never suspends in
\* a policy here, isDirty() being what HasUnsavedChanges returns
SessionModeNext ==
    \/ \E id \in SessionIds(owned), upd \in Updaters : UpdateNode(id, upd)
    \/ \E id \in SessionIds(owned) \ {"none"} : HandleFocusRequest(id)
    \/ \E payload \in ImportTexts \cup ExportedFiles : HandleImport(payload)
    \/ HandleExport
    \/ \E c \in 1..MaxSessionCalls, target \in Modes : SwitchModeCall(c, target, HasUnsavedChanges)
    \/ \E c \in 1..MaxSessionCalls : SwitchModeResume(c)

SessionModeSpec == SessionInit /\ [][SessionModeNext]_vars

(***************************************************************************)
(* ExpressionTextureClient  (dist/expression-listener.js 14-142).  A call  *)
(* of swapTexture runs up to its await of loadTexture and is resumed when  *)
(* the loader calls resolve or reject; other calls run in between.         *)
(***************************************************************************)
Urls == {"u1", "u2"}        \* the src values of the expression image; "" is no src
MaxLoads == 3               \* most loadTexture calls of a run

\* disposeTexture() (128-133) and applyTexture(texture) (95-100) on the
\* client's fields st
DisposeTexture(st) ==
    IF st.currentTexture # NoTexture
      THEN [st EXCEPT !.disposed = @ \cup {st.currentTexture}, !.currentTexture = NoTexture]
    ELSE st
ApplyTexture(st, texture) ==
    [DisposeTexture(st) EXCEPT !.spriteMap = texture, !.currentTexture = texture,
                               !.applied = Append(@, texture)]
\* clearSpriteMap() (102-108)
ClearSpriteMap(st) == [DisposeTexture(st) EXCEPT !.spriteMap = NoTexture]

ExprFields ==
    [currentTexture |-> currentTexture, spriteMap |-> spriteMap,
     applied |-> textureLog.applied, disposed |-> textureLog.disposed]
ExprStore(st) ==
    /\ currentTexture' = st.currentTexture
    /\ spriteMap' = st.spriteMap
    /\ textureLog' = [applied |-> st.applied, disposed |-> st.disposed]

\* handleExpressionChange(src) (63-75), up to the await inside swapTexture
HandleExpressionChange(src) ==
    LET nextUrl == IF src # "" THEN src ELSE fallbackUrl
    IN  /\ UNCHANGED fallbackUrl
        /\ IF nextUrl = NoUrl
             THEN /\ lastUrl' = NoUrl
                  /\ ExprStore(ClearSpriteMap(ExprFields))
                  /\ UNCHANGED loads
           ELSE IF nextUrl = lastUrl
             THEN UNCHANGED <<lastUrl, currentTexture, spriteMap, loads, textureLog>>
           ELSE /\ Len(loads) < MaxLoads
                /\ lastUrl' = nextUrl
                /\ loads' = Append(loads, [url |-> nextUrl, st |-> "pending"])
                /\ UNCHANGED <<currentTexture, spriteMap, textureLog>>
        /\ UNCHANGED <<selVars, modeVars, ioVars, treeVars, sessVars, queryVars, chatVars>>

\* the loader resolves load r: swapTexture resumes and applies the texture (79-80)
LoadResolves(r) ==
    /\ r <= Len(loads)
    /\ loads[r].st = "pending"
    /\ loads' = [loads EXCEPT ![r].st = "loaded"]
    /\ ExprStore(ApplyTexture(ExprFields, Texture(loads[r].url, r)))
    /\ UNCHANGED <<fallbackUrl, lastUrl>>
    /\ UNCHANGED <<selVars, modeVars, ioVars, treeVars, sessVars, queryVars, chatVars>>

\* the loader rejects load r: the catch block of swapTexture (81-92) loads
\* the fallback url, or applies the texture createFallbackTexture draws
\* (window.THREE.CanvasTexture being there, as it is where a loader is)
LoadRejects(r) ==
    /\ r <= Len(loads)
    /\ loads[r].st = "pending"
    /\ IF loads[r].url # fallbackUrl /\ fallbackUrl # NoUrl
         THEN /\ Len(loads) < MaxLoads
              /\ loads' = Append([loads EXCEPT ![r].st = "failed"], [url |-> fallbackUrl, st |-> "pending"])
              /\ UNCHANGED <<currentTexture, spriteMap, textureLog>>
       ELSE /\ loads' = [loads EXCEPT ![r].st = "failed"]
            /\ ExprStore(ApplyTexture(ExprFields, Texture("canvas", r)))
    /\ UNCHANGED <<fallbackUrl, lastUrl>>
    /\ UNCHANGED <<selVars, modeVars, ioVars, treeVars, sessVars, queryVars, chatVars>>

ExprInit ==
    /\ \E fallback \in {"fallback", NoUrl} : ExprConstructor(fallback)
    /\ QueryIdle
    /\ ChatIdle
    /\ SelIdle
    /\ ModeIdle
    /\ IoIdle
    /\ TreeIdle
    /\ SessIdle

ExprNext ==
    \/ \E src \in Urls \cup {""} : HandleExpressionChange(src)
    \/ \E r \in 1..MaxLoads : LoadResolves(r)
    \/ \E r \in 1..MaxLoads : LoadRejects(r)

ExprSpec == ExprInit /\ [][ExprNext]_vars

(***************************************************************************)
(* The chat bridge of the host page  (editor-app.js 964-1224, 1322-1329,   *)
(* 1543-1549).  A message's signature stands for the message; a payload    *)
(* posted to a frame that has not finished loading reaches no document.    *)
(***************************************************************************)
Messages == {"m1", "m2"}

\* the payload syncChatHistory builds (1078-1090) for the latest entry
HistoryPayload(latest) ==
    [history |-> IF latest # NoMessage THEN <<latest>> ELSE <<>>, signature |-> latest]

\* broadcastChatPayload(payload, targetFrame) (1013-1026): the inboxes after
\* it, fr being the state of the frames
BroadcastChatPayload(fr, boxes, payload, targetFrame) ==
    [f \in Frames |->
        IF (targetFrame = "null" \/ f = targetFrame) /\ fr[f] = "loaded"
          THEN boxes[f] \cup {payload} ELSE boxes[f]]

\* syncChatHistory(targetFrame) (1068-1091) with last for
\* chatSyncState.lastSignature and boxes for the frames' inboxes
SyncChatHistory(last, fr, boxes, targetFrame) ==
    IF chat = last THEN [lastSignature |-> last, inbox |-> boxes]
    ELSE [lastSignature |-> chat,
          inbox |-> BroadcastChatPayload(fr, boxes, HistoryPayload(chat), targetFrame)]

\* the host chat gets a new latest assistant message, or loses it
ChatChanges(m) ==
    /\ chat # m
    /\ chat' = m
    /\ UNCHANGED <<lastSignature, frames, inbox>>
    /\ UNCHANGED <<selVars, modeVars, ioVars, treeVars, sessVars, queryVars, exprVars>>

\* syncChatHistory() run by initializeChatIntegration (1223), the poll timer
\* (1222), onChatChanged (1212) or handleMessageFinished (1140)
SyncAll ==
    /\ lastSignature' = SyncChatHistory(lastSignature, frames, inbox, "null").lastSignature
    /\ inbox' = SyncChatHistory(lastSignature, frames, inbox, "null").inbox
    /\ UNCHANGED <<chat, frames>>
    /\ UNCHANGED <<selVars, modeVars, ioVars, treeVars, sessVars, queryVars, exprVars>>

\* onHistoryChanged (1213-1216): resetChatSyncState(), then syncChatHistory()
HistoryChanged ==
    /\ lastSignature' = SyncChatHistory(NoMessage, frames, inbox, "null").lastSignature
    /\ inbox' = SyncChatHistory(NoMessage, frames, inbox, "null").inbox
    /\ UNCHANGED <<chat, frames>>
    /\ UNCHANGED <<selVars, modeVars, ioVars, treeVars, sessVars, queryVars, exprVars>>

\* handleStreamToken (1115-1127): refreshLastSignatureFromHistory() records
\* the latest signature; the payload it broadcasts is streamed text, not a
\* chat history
HandleStreamToken ==
    /\ lastSignature' = chat
    /\ UNCHANGED <<chat, frames, inbox>>
    /\ UNCHANGED <<selVars, modeVars, ioVars, treeVars, sessVars, queryVars, exprVars>>

\* an iframe is put in the document or reloaded: a new document starts to load
FrameOpens(f) ==
    /\ frames[f] # "loading"
    /\ frames' = [frames EXCEPT ![f] = "loading"]
    /\ inbox' = [inbox EXCEPT ![f] = {}]
    /\ UNCHANGED <<chat, lastSignature>>
    /\ UNCHANGED <<selVars, modeVars, ioVars, treeVars, sessVars, queryVars, exprVars>>

\* the load handler of the iframe (1322-1329, 1543-1549):
\* syncChatHistory(frameWindow) on the loaded frame
FrameLoads(f) ==
    /\ frames[f] = "loading"
    /\ frames' = [frames EXCEPT ![f] = "loaded"]
    /\ lastSignature' = SyncChatHistory(lastSignature, frames', inbox, f).lastSignature
    /\ inbox' = SyncChatHistory(lastSignature, frames', inbox, f).inbox
    /\ UNCHANGED chat
    /\ UNCHANGED <<selVars, modeVars, ioVars, treeVars, sessVars, queryVars, exprVars>>

ChatInit ==
    /\ ChatIdle
    /\ QueryIdle
    /\ ExprIdle
    /\ SelIdle
    /\ ModeIdle
    /\ IoIdle
    /\ TreeIdle
    /\ SessIdle

ChatNext ==
    \/ \E m \in Messages \cup {NoMessage} : ChatChanges(m)
    \/ SyncAll
    \/ HistoryChanged
    \/ HandleStreamToken
    \/ \E f \in Frames : FrameOpens(f)
    \/ \E f \in Frames : FrameLoads(f)

ChatSpec == ChatInit /\ [][ChatNext]_vars

(***************************************************************************)
(* QuerySpec: findNodeById, flattenNodeIds and the validator applied to    *)
(* the nodes of one document                                               *)
(***************************************************************************)
QueryDocs ==
    {Obj([nodes |-> Arr(f)]) : f \in Forests}
    \cup {Obj([assets |-> a, nodes |-> Arr(<<RefNode(i, Obj([assetId |-> Str("a")]))>> \o f)]) :
             a \in {Arr(<<>>), Arr(<<GoodAsset("a")>>), Arr(<<Null>>)}, i \in NodeIds, f \in ForestsOf(1)}

FindNode(id) ==
    /\ qfound' = [called |-> TRUE, id |-> id, result |-> FindNodeById(Get(world, "nodes").a, id)]
    /\ UNCHANGED listed
    /\ UNCHANGED <<selVars, modeVars, ioVars, treeVars, sessVars, exprVars, chatVars>>

Flatten ==
    /\ listed' = [called |-> TRUE, ids |-> FlattenNodeIds(Get(world, "nodes").a)]
    /\ UNCHANGED qfound
    /\ UNCHANGED <<selVars, modeVars, ioVars, treeVars, sessVars, exprVars, chatVars>>

QueryInit ==
    /\ QueryIdle
    /\ ExprIdle
    /\ ChatIdle
    /\ SelIdle
    /\ ModeIdle
    /\ TreeIdle
    /\ SessIdle
    /\ world \in QueryDocs
    /\ text = NoText /\ textFrom = "none"
    /\ vres = NoOutcome
    /\ sres = NoOutcome
    /\ dres = NoOutcome

QueryNext ==
    \/ \E id \in TargetIds : FindNode(id)
    \/ Flatten
    \/ Validate

QuerySpec == QueryInit /\ [][QueryNext]_vars

(***************************************************************************)
(* Definitions used to state the properties                                *)
(***************************************************************************)
\* every call record of the state: those in flight and the one just completed
CallRecords == {calls[c] : c \in 1..MaxCalls} \cup {returned}
\* a switchMode(target) call with target different from the mode it was made in
Switching(r) == r.pc # "new" /\ r.target # r.modeAtCall
Completed(r) == r.pc = "done" /\ r.target # r.modeAtCall
IsPolicyEvent(e) == e.ev \in {"autoSave", "confirmSwitch"}
IsHookOrNotify(e) == e.ev \in {"activate", "deactivate", "commit", "notify"}
Bare(e) == <<e.ev, e.a, e.b>>

RECURSIVE IsJson(_)
\* x is built from plain objects, arrays, strings, finite numbers, booleans
\* and null only: no undefined-valued property or element, no NaN
IsJson(x) ==
    CASE x.t \in {"undef", "nan"} -> FALSE
      [] x.t = "arr" -> \A i \in 1..Len(x.a) : IsJson(x.a[i])
      [] x.t = "obj" -> \A k \in DOMAIN x.o : IsJson(x.o[k])
      [] OTHER -> TRUE

RECURSIVE PreOrderFrom(_, _, _, _)
\* the record-valued nodes of a forest with their paths, in pre-order
\* depth-first document order: each node, then its children left to right
PreOrderFrom(nodes, i, path, key) ==
    IF i > Len(nodes) THEN <<>>
    ELSE LET node == nodes[i]
             here == path \o <<SegI(key, i - 1)>>
             below == IF IsObject(node) /\ IsArray(Get(node, "children"))
                        THEN PreOrderFrom(node.o["children"].a, 1, here, "children") ELSE <<>>
         IN  (IF IsObject(node) THEN <<[path |-> here, node |-> node]>> ELSE <<>>)
             \o below \o PreOrderFrom(nodes, i + 1, path, key)
PreOrder(w) == IF IsObject(w) /\ IsArray(Get(w, "nodes")) THEN PreOrderFrom(w.o["nodes"].a, 1, <<>>, "nodes") ELSE <<>>

\* the ids of the entries of the document's assets list
AssetIds(w) ==
    LET assets == Get(w, "assets")
    IN  IF IsArray(assets) THEN {Get(assets.a[i], "id") : i \in 1..Len(assets.a)} ELSE {}

(***************************************************************************)
(* C1  After any sequence of SelectionManager operations the focused id is *)
(* absent or a member of the selection.  The code breaks it: select(id,    *)
(* {additive: true}) of a selected id removes it and then focuses it.      *)
(***************************************************************************)
FocusedIsMember == focused = Absent \/ focused \in Range(selection)

(***************************************************************************)
(* C2  A switchMode('play') made in mode 'edit' while dirty, with no       *)
(* autosave policy and a confirm policy that resolves a falsy value:       *)
(* it resolves false, and none of its steps changes the mode or the dirty  *)
(* flag, calls an activate or deactivate hook or notifies a subscriber.    *)
(***************************************************************************)
BlockedCase(r) ==
    /\ r.modeAtCall = "edit" /\ r.target = "play" /\ r.dirtyAtCall
    /\ ~options.autoSave /\ options.confirmSwitch
BlockedSwitchSteps ==
    \A c \in 1..MaxCalls :
        /\ (calls[c].pc = "new" /\ calls'[c].pc = "awaitConfirm" /\ BlockedCase(calls'[c])) =>
              /\ mode' = mode /\ dirty' = dirty
              /\ \A i \in 1..Len(emitted') : ~IsHookOrNotify(emitted'[i])
        /\ (calls[c].pc = "awaitConfirm" /\ calls'[c].pc = "awaitGate" /\ BlockedCase(calls[c])
              /\ ~JsTruthy(calls'[c].canSwitch)) =>
              /\ mode' = mode /\ dirty' = dirty /\ emitted' = <<>>
        /\ (calls[c].pc = "awaitGate" /\ calls'[c].pc = "new" /\ BlockedCase(calls[c])
              /\ ~JsTruthy(calls[c].canSwitch)) =>
              /\ returned'.result = "false"
              /\ mode' = mode /\ dirty' = dirty /\ emitted' = <<>>
ModeGatingBlocked == [][BlockedSwitchSteps]_vars
ModeGatingBlockedReached ==
    /\ returned.pc = "done" /\ BlockedCase(returned) /\ returned.canSwitch = "false"
    /\ returned.result = "false" /\ mode = "edit" /\ dirty /\ listeners # <<>>

(***************************************************************************)
(* C3  A switchMode(target) with target different from the current mode    *)
(* resolves false exactly when the machine was dirty, no autosave policy   *)
(* is configured, a confirm policy is configured and it resolved a falsy   *)
(* value; in every other case it resolves true and the mode is target.     *)
(***************************************************************************)
GateDecision ==
    Completed(returned) =>
        /\ returned.result \in {"true", "false"}
        /\ returned.result = "false" <=>
              (returned.dirtyAtCall /\ ~options.autoSave /\ options.confirmSwitch
               /\ returned.invoked # <<>> /\ ~JsTruthy(returned.canSwitch))
        /\ returned.result = "true" => mode = returned.target
GateDecisionReached ==
    /\ Completed(returned) /\ returned.dirtyAtCall
    /\ ~options.autoSave /\ ~options.confirmSwitch
    /\ returned.result = "true" /\ mode = returned.target /\ mode = "play"

(***************************************************************************)
(* C4  The gate invokes its policies in strict precedence: none when not   *)
(* dirty; autosave exactly once and never confirm when dirty and autosave  *)
(* is configured; confirm exactly once with (current mode, target mode)    *)
(* when dirty without autosave.  The dirty flag is cleared exactly when    *)
(* the gate resumes from autosave or from a truthy confirm; the steps of   *)
(* a call that was dirty with no policy leave the flag and allow it.       *)
(***************************************************************************)
ExpectedInvocation(r) ==
    IF ~r.dirtyAtCall THEN <<>>
    ELSE IF options.autoSave THEN <<<<"autoSave", "", "">>>>
    ELSE IF options.confirmSwitch THEN <<<<"confirmSwitch", r.modeAtCall, r.target>>>>
    ELSE <<>>
PolicyInvocations ==
    \A r \in CallRecords : Switching(r) =>
        /\ [i \in 1..Len(r.invoked) |-> Bare(r.invoked[i])] = ExpectedInvocation(r)
        /\ (r.pc = "done" /\ r.dirtyAtCall /\ ~options.autoSave /\ ~options.confirmSwitch) => r.result = "true"
PolicyStep ==
    /\ SelectSeq(emitted', IsPolicyEvent) =
          IF \E c \in 1..MaxCalls : calls[c].pc = "new" /\ calls'[c].pc # "new"
            THEN (LET c == CHOOSE c \in 1..MaxCalls : calls[c].pc = "new" /\ calls'[c].pc # "new"
                  IN  calls'[c].invoked)
          ELSE <<>>
    /\ \A c \in 1..MaxCalls :
          /\ (calls[c].pc = "awaitAutoSave" /\ calls'[c].pc # "awaitAutoSave") => dirty' = FALSE
          /\ (calls[c].pc = "awaitConfirm" /\ calls'[c].pc # "awaitConfirm") =>
                dirty' = (IF JsTruthy(calls'[c].canSwitch) THEN FALSE ELSE dirty)
          /\ (calls[c].pc = "new" /\ calls'[c].pc # "new") => dirty' = dirty
          /\ (calls[c].pc = "awaitGate" /\ calls'[c].pc # "awaitGate") => dirty' = dirty
GatePrecedence == [](PolicyInvocations) /\ [][PolicyStep]_vars
GatePrecedenceReached ==
    /\ Completed(returned) /\ returned.dirtyAtCall
    /\ options.autoSave /\ options.confirmSwitch
    /\ Len(returned.invoked) = 1 /\ returned.invoked[1].ev = "autoSave"
    /\ ~dirty /\ returned.result = "true"

(***************************************************************************)
(* C5  An allowed switchMode calls the deactivate hook of the context it   *)
(* took as previous, then the target's activate hook, then commits the     *)
(* mode, then notifies every subscribed listener once, in subscription     *)
(* order, with the new mode, and resolves true; when the listeners are     *)
(* called this.mode is already the new mode.                               *)
(***************************************************************************)
ExpectedCommit(r, ls) ==
    (IF r.previous = "none" THEN <<>> ELSE <<<<"deactivate", r.previous, "">>>>)
    \o <<<<"activate", r.target, "">>, <<"commit", r.target, "">>>>
    \o [i \in 1..Len(ls) |-> <<"notify", ls[i], r.target>>]
CommitOrder ==
    (Completed(returned) /\ JsTruthy(returned.canSwitch)) =>
        /\ returned.result = "true"
        /\ [i \in 1..Len(emitted) |-> Bare(emitted[i])] = ExpectedCommit(returned, listeners)
        /\ \A i \in 1..Len(emitted) : emitted[i].ev = "notify" => emitted[i].m = returned.target
        /\ mode = returned.target
CommitOrderReached ==
    /\ Completed(returned) /\ returned.result = "true"
    /\ Len(listeners) = 2 /\ Len(emitted) = 5
    /\ emitted[1].ev = "deactivate" /\ emitted[5].ev = "notify"

(***************************************************************************)
(* C6  Round trip: for every document that passes validateWorldDocument,   *)
(* deserializeWorld(serializeWorld(doc)) succeeds and is deep-equal to doc *)
(* except that version is 1.  As stated it fails for a valid document      *)
(* holding a value JSON cannot carry (an undefined-valued property, NaN);  *)
(* it holds for the valid documents made of JSON values.                   *)
(***************************************************************************)
RoundTripped == textFrom = "serialize" /\ dres # NoOutcome
ExpectedRoundTrip == Put(world, "version", Num(1))
RoundTripAnyValid == RoundTripped => (dres.kind = "ok" /\ dres.value = ExpectedRoundTrip)
RoundTripJson == (RoundTripped /\ IsJson(world)) => (dres.kind = "ok" /\ dres.value = ExpectedRoundTrip)
RoundTripJsonReached ==
    /\ RoundTripped /\ IsJson(world) /\ dres.kind = "ok"
    /\ Get(world, "version") = Num(999) /\ Get(world, "metadata") # Undef
    /\ Get(world, "assets") # Undef /\ Len(PreOrder(world)) > 0

(***************************************************************************)
(* C7  validateWorldDocument never throws: for every input it returns      *)
(* {valid, errors} with valid true exactly when errors is empty.  The code *)
(* throws a TypeError when a node's asset reference is looked up in an     *)
(* assets list holding null.                                               *)
(***************************************************************************)
ValidateNeverThrows ==
    vres # NoOutcome => (vres.kind = "returned" /\ (vres.valid <=> vres.errors = <<>>))

(***************************************************************************)
(* C8  Node ids are unique in one flat namespace over the whole forest:    *)
(* validateWorldDocument reports a 'must be unique' error at the path of   *)
(* a node exactly when an earlier node in pre-order has the same id; so    *)
(* the second occurrence is flagged and the first is not.                  *)
(***************************************************************************)
UniqueErrorAt(entry) == Err(entry.path \o <<Seg("id")>>, "must be unique", Get(entry.node, "id").s)
Repeats(l, j) == \E i \in 1..(j - 1) : Get(l[i].node, "id") = Get(l[j].node, "id")
UniquenessWhenReturned ==
    vres.kind = "returned" =>
        LET l == PreOrder(world)
        IN  \A j \in 1..Len(l) : NonEmptyString(Get(l[j].node, "id")) =>
                (Repeats(l, j) <=> UniqueErrorAt(l[j]) \in Range(vres.errors))
UniquenessFlatNamespace ==
    (vres # NoOutcome /\ \E j \in 1..Len(PreOrder(world)) :
            NonEmptyString(Get(PreOrder(world)[j].node, "id")) /\ Repeats(PreOrder(world), j))
        => (vres.kind = "returned" /\ UniquenessWhenReturned)

(***************************************************************************)
(* C9  Referential integrity: validateWorldDocument reports a 'references  *)
(* missing asset' error at <node path>.asset.assetId exactly when the      *)
(* node's non-empty asset.assetId is the id of no entry of the assets      *)
(* list, whatever else is wrong with that or with the other entries.       *)
(***************************************************************************)
HasAssetId(node) == IsObject(Get(node, "asset")) /\ NonEmptyString(Get(Get(node, "asset"), "assetId"))
MissingAssetAt(entry) ==
    Err(entry.path \o <<Seg("asset"), Seg("assetId")>>, "references missing asset",
        Get(Get(entry.node, "asset"), "assetId").s)
ReferencesWhenReturned ==
    vres.kind = "returned" =>
        LET l == PreOrder(world)
        IN  \A j \in 1..Len(l) : HasAssetId(l[j].node) =>
                (Get(Get(l[j].node, "asset"), "assetId") \notin AssetIds(world)
                    <=> MissingAssetAt(l[j]) \in Range(vres.errors))
ReferentialIntegrity ==
    (vres # NoOutcome /\ \E j \in 1..Len(PreOrder(world)) : HasAssetId(PreOrder(world)[j].node))
        => (vres.kind = "returned" /\ ReferencesWhenReturned)

(***************************************************************************)
(* C10  Version gate: for every well-formed text of a record whose version *)
(* is a number greater than 1, deserializeWorld fails with the             *)
(* unsupported-version error, never with a validation error, whether or    *)
(* not the rest of the document would pass validation.                     *)
(***************************************************************************)
FutureText ==
    /\ text.t = "text" /\ IsObject(JsonParse(text))
    /\ Get(JsonParse(text), "version").t = "num" /\ Get(JsonParse(text), "version").n > 1
VersionGate == (dres # NoOutcome /\ FutureText) => dres.kind = "future"
VersionGateReached ==
    /\ dres.kind = "future" /\ FutureText
    /\ vres.kind = "returned" /\ ~vres.valid /\ textFrom = "file"

(***************************************************************************)
(* C11  deserializeWorld accepts a text whose body validates when its      *)
(* version field is absent or is an integer not above 1, rejects it when   *)
(* the version is above 1, and every document it returns has version 1.    *)
(***************************************************************************)
BodyValidates ==
    /\ text.t = "text" /\ IsObject(JsonParse(text))
    /\ ValidateWorldDocument(JsonParse(text)).kind = "returned"
    /\ ValidateWorldDocument(JsonParse(text)).valid
TextVersion == Get(JsonParse(text), "version")
VersionAcceptance ==
    dres # NoOutcome =>
        /\ (BodyValidates /\ (TextVersion = Undef \/ (TextVersion.t = "num" /\ TextVersion.n <= 1)))
              => dres.kind = "ok"
        /\ (BodyValidates /\ TextVersion.t = "num" /\ TextVersion.n > 1) => dres.kind = "future"
        /\ dres.kind = "ok" => Get(dres.value, "version") = Num(1)
VersionAbsentReached ==
    /\ dres.kind = "ok" /\ textFrom = "file" /\ BodyValidates
    /\ TextVersion = Undef /\ Get(dres.value, "version") = Num(1)

(***************************************************************************)
(* C12  serializeWorld(doc) fails with a validation error exactly when     *)
(* validateWorldDocument(doc) returns invalid; when it succeeds the        *)
(* encoded document has version 1 whatever doc.version was, every other    *)
(* top-level field of doc is encoded as JSON encodes that field, and the   *)
(* call leaves doc as it was.                                              *)
(***************************************************************************)
TopLevelKeys == {"version", "nodes", "assets", "metadata"}
Encoded == JsonParse(sres.value)
SerializeOutcome ==
    sres # NoOutcome =>
        /\ sres.kind = "invalid" <=>
              (ValidateWorldDocument(world).kind = "returned" /\ ~ValidateWorldDocument(world).valid)
        /\ sres.kind = "ok" =>
              /\ Get(Encoded, "version") = Num(1)
              /\ \A k \in TopLevelKeys \ {"version"} :
                    Get(Encoded, k) = (IF Has(world, k) THEN ToJson(Get(world, k)) ELSE Undef)
              /\ DOMAIN Encoded.o \subseteq TopLevelKeys
SerializeStep == sres' # sres => world' = world
SerializeContract == [](SerializeOutcome) /\ [][SerializeStep]_vars
SerializeContractReached ==
    /\ sres.kind = "ok" /\ Get(world, "version") = Num(999)
    /\ Get(world, "metadata") # Undef /\ Len(PreOrder(world)) > 0

(***************************************************************************)
(* C15  Focus cycling: for a non-empty order of distinct ids with the      *)
(* focus on order[i], focusNext(order, 1) focuses the next id of order and *)
(* focusNext(order, -1) the one before, wrapping around at both ends;      *)
(* with no focus focusNext(order, 1) focuses the first id of order; after  *)
(* each call the selection is exactly the focused id.                      *)
(***************************************************************************)
Distinct(order) == \A i, j \in 1..Len(order) : order[i] = order[j] => i = j
Neighbour(order, i, direction) ==
    IF direction = 1 THEN (IF i = Len(order) THEN order[1] ELSE order[i + 1])
    ELSE (IF i = 1 THEN order[Len(order)] ELSE order[i - 1])
FocusCycleStep ==
    (selOp'.op = "focusNext" /\ selOp'.ids # <<>> /\ Distinct(selOp'.ids)) =>
        LET order == selOp'.ids
        IN  /\ \A i \in 1..Len(order) : order[i] = focused =>
                  focused' = Neighbour(order, i, selOp'.dir)
            /\ (focused = Absent /\ selOp'.dir = 1) => focused' = order[1]
            /\ selection' = <<focused'>>
FocusCycle == [][FocusCycleStep]_vars
FocusCycleReached ==
    /\ selOp.op = "focusNext" /\ selOp.dir = -1 /\ Len(selOp.ids) = MaxOrder
    /\ Distinct(selOp.ids) /\ focused = selOp.ids[MaxOrder] /\ selection = <<focused>>

(***************************************************************************)
(* C16  switchMode(target) with target equal to the current mode resolves  *)
(* true at once with no side effects: no policy is invoked, no hook is     *)
(* called, no context is created, the dirty flag and the mode are          *)
(* unchanged and no subscriber is notified.                                *)
(***************************************************************************)
SameModeCall(r) == r.pc # "new" /\ r.target = r.modeAtCall
SameModeRecords ==
    \A r \in CallRecords : SameModeCall(r) =>
        r.pc = "done" /\ r.result = "true" /\ r.invoked = <<>>
SameModeStep ==
    SameModeCall(returned') =>
        /\ emitted' = <<>>
        /\ UNCHANGED <<mode, dirty, contexts, listeners, calls>>
SameModeNoEffect == [](SameModeRecords) /\ [][SameModeStep]_vars
SameModeNoEffectReached ==
    /\ SameModeCall(returned) /\ returned.result = "true" /\ returned.dirtyAtCall
    /\ options.confirmSwitch /\ returned.target = "play" /\ contexts = {"edit", "play"}
    /\ listeners # <<>> /\ dirty

(***************************************************************************)
(* C17  A listener passed to subscribe is called once at once with the     *)
(* current mode, then once per committed transition with the new mode,     *)
(* never for a blocked or same-mode switchMode, and never while it is not  *)
(* subscribed (so never again after its unsubscribe handle was called).    *)
(***************************************************************************)
Notifications(es) == SelectSeq(es, LAMBDA e : e.ev = "notify")
Commits(es) == SelectSeq(es, LAMBDA e : e.ev = "commit")
ListenerStep ==
    LET notes == Notifications(emitted')
    IN  /\ Commits(emitted') # <<>> =>
              /\ mode' = emitted'[Len(emitted') - Len(notes)].a
              /\ [i \in 1..Len(notes) |-> notes[i].a] = listeners
              /\ \A i \in 1..Len(notes) : notes[i].b = mode'
              /\ returned'.pc = "done" /\ returned'.result = "true"
        /\ (Commits(emitted') = <<>> /\ notes # <<>>) =>
              /\ Len(notes) = 1
              /\ notes[1].b = mode /\ mode' = mode
              /\ notes[1].a \in Range(listeners')
              /\ calls' = calls /\ returned' = NoCall
        /\ (returned'.pc = "done" /\ (returned'.result = "false" \/ SameModeCall(returned')))
              => notes = <<>>
        /\ \A i \in 1..Len(notes) : notes[i].a \in Range(listeners')
ListenerCalls == [][ListenerStep]_vars
ListenerCallsReached ==
    /\ Commits(emitted) # <<>> /\ listeners = <<"l2">>
    /\ Len(Notifications(emitted)) = 1 /\ Notifications(emitted)[1].a = "l2"
    /\ Notifications(emitted)[1].b = "play" /\ mode = "play"

(***************************************************************************)
(* C18  destroy calls the dispose hook of the 'edit' context and of the    *)
(* 'play' context exactly once each, creating first the context of a mode  *)
(* that was never entered, and empties the subscriber set; afterwards only *)
(* listeners subscribed anew are notified.                                 *)
(***************************************************************************)
Disposals(es) == SelectSeq(es, LAMBDA e : e.ev = "dispose")
Creations(es) == SelectSeq(es, LAMBDA e : e.ev = "createContext")
DestroyStep ==
    /\ Disposals(emitted') # <<>> =>
          /\ \A m \in Modes : Cardinality({i \in 1..Len(emitted') :
                                   emitted'[i].ev = "dispose" /\ emitted'[i].a = m}) = 1
          /\ {Creations(emitted')[i].a : i \in 1..Len(Creations(emitted'))} = Modes \ contexts
          /\ Len(Creations(emitted')) = Cardinality(Modes \ contexts)
          /\ emitted' = Creations(emitted') \o Disposals(emitted')
          /\ listeners' = <<>> /\ contexts' = {}
    /\ \A i \in 1..Len(emitted') : emitted'[i].ev = "notify" => emitted'[i].a \in Range(listeners')
DestroyDisposes == [][DestroyStep]_vars
DestroyDisposesReached ==
    /\ Len(Disposals(emitted)) = 2 /\ Len(Creations(emitted)) = 1
    /\ Creations(emitted)[1].a = "play" /\ mode = "edit"
    /\ listeners = <<>> /\ contexts = {} /\ dirty

(***************************************************************************)
(* Positions in a forest in memory: a path <<i, j, ...>> names child j of  *)
(* root i, and so on.                                                      *)
(***************************************************************************)
RECURSIVE PathsOf(_, _)
PathsOf(items, path) ==
    UNION {{path \o <<i>>} \cup PathsOf(items[i].kids.items, path \o <<i>>) : i \in 1..Len(items)}
Paths(arr) == PathsOf(arr.items, <<>>)
RECURSIVE NodeAt(_, _)
NodeAt(arr, path) ==
    IF Len(path) = 1 THEN arr.items[path[1]] ELSE NodeAt(arr.items[path[1]].kids, Tail(path))
IsPrefix(q, path) == Len(q) <= Len(path) /\ SubSeq(path, 1, Len(q)) = q
\* the positions of the nodes with the target id, and those of their ancestors
Hits == {path \in Paths(forest) : Get(NodeAt(forest, path).o, "id") = Str(tcall.id)}
OnPathToHit(path) == \E h \in Hits : IsPrefix(path, h)

(***************************************************************************)
(* C13  Structure sharing: in the forest returned by updateNodeById every  *)
(* node that is neither a matched node nor an ancestor of one is the same  *)
(* reference as in the input; when no node has the id, changed is false    *)
(* and the returned forest is the input forest reference itself.           *)
(***************************************************************************)
StructureSharing ==
    tcall # NoTreeCall =>
        /\ \A path \in Paths(forest) : ~OnPathToHit(path) =>
              /\ path \in Paths(tres.nodes)
              /\ NodeAt(tres.nodes, path) = NodeAt(forest, path)
        /\ Hits = {} => (~tres.changed /\ tres.nodes = forest)
StructureSharingReached ==
    /\ tcall.updater = "rename" /\ tres.changed /\ tres.nodes.ref # forest.ref
    /\ \E path \in Paths(forest) :
          /\ ~OnPathToHit(path) /\ NodeAt(forest, path).ckey = "array"
          /\ NodeAt(forest, path).kids.items # <<>>
          /\ NodeAt(tres.nodes, path).ref = Original(path)

(***************************************************************************)
(* C14  On a forest holding several nodes with the target id (siblings,    *)
(* unrelated branches, or one nested in another) updateNodeById applies    *)
(* the updater exactly once to each of them, and the node at the position  *)
(* of each carries the fields the updater returned for it.                 *)
(***************************************************************************)
UpdatesEveryMatch ==
    tcall # NoTreeCall =>
        /\ Len(tres.applied) = Cardinality(Hits)
        /\ Range(tres.applied) = {NodeAt(forest, path).ref : path \in Hits}
        /\ \A path \in Hits :
              /\ path \in Paths(tres.nodes)
              /\ NodeAt(tres.nodes, path).o = Updater(tcall.updater, NodeAt(forest, path)).o
UpdatesEveryMatchReached ==
    /\ tcall.updater = "rename" /\ tres.changed
    /\ \E h1, h2 \in Hits : h1 # h2 /\ IsPrefix(h1, h2)
    /\ \A path \in Hits : Get(NodeAt(tres.nodes, path).o, "name") = Str("renamed")

(***************************************************************************)
(* C19  updateNode(id, updater) replaces the owned document exactly when   *)
(* updateNodeById reports changed; when no node has the id, or the updater *)
(* declines or returns the same node, the owned document stays the same    *)
(* object and neither the session dirty state nor the mode machine's dirty *)
(* flag is set.                                                            *)
(***************************************************************************)
OwnedIds == {Get(PreOrder(owned)[j].node, "id").s : j \in 1..Len(PreOrder(owned))}
UpdateNodeStep ==
    sessOp'.op = "updateNode" =>
        /\ sessOp'.replaced <=> sessOp'.changed
        /\ sessOp'.changed <=> (sessOp'.id \in OwnedIds /\ sessOp'.updater \notin {"decline", "same"})
        /\ ~sessOp'.changed =>
              /\ ~sessOp'.replaced /\ owned' = owned
              /\ sessDirty' = sessDirty /\ dirty' = dirty
        /\ sessOp'.changed => (sessDirty' /\ dirty')
UpdateNodeReplaces == [][UpdateNodeStep]_vars
UpdateNodeReplacesReached ==
    /\ sessOp.op = "updateNode" /\ sessOp.updater = "same" /\ sessOp.id \in OwnedIds
    /\ ~sessOp.replaced /\ ~sessDirty /\ ~dirty /\ owned = DEFAULT_WORLD

(***************************************************************************)
(* C20  A successful import replaces the owned document by the             *)
(* deserialized one, sets the selection to exactly the first root node's   *)
(* id with that id focused (to the empty selection with no focus when the  *)
(* document has no root), and clears the session dirty state and the mode  *)
(* machine's local dirty flag.                                             *)
(***************************************************************************)
ImportResets ==
    (sessOp.op = "import" /\ sessOp.outcome = "ok") =>
        LET d == DeserializeWorld(sessOp.payload)
            roots == Get(owned, "nodes").a
        IN  /\ d.kind = "ok" /\ owned = d.value
            /\ IF roots = <<>>
                 THEN selection = <<>> /\ focused = Absent
               ELSE selection = <<Get(roots[1], "id").s>> /\ focused = Get(roots[1], "id").s
            /\ ~sessDirty /\ ~dirty
ImportResetsReached ==
    /\ sessOp.op = "import" /\ sessOp.outcome = "ok"
    /\ Len(Get(owned, "nodes").a) = 2 /\ selection = <<"x">> /\ focused = "x"
    /\ ~sessDirty /\ ~dirty

(***************************************************************************)
(* C21  exportDocument on a valid document returns the serialized wire     *)
(* text of the owned document (version stamped to 1) together with a       *)
(* fingerprint computed over exactly that text; on an invalid document it  *)
(* fails with the validation error and produces no export.                 *)
(***************************************************************************)
IsText(x) == DOMAIN x = DOMAIN NoText
ExportReturnsWireText ==
    sessOp.op = "export" =>
        LET serialized == SerializeWorld(owned)
        IN  IF serialized.kind = "ok"
              THEN /\ sessOp.outcome = "ok"
                   /\ IsText(sessOp.pkg.world) /\ sessOp.pkg.world = serialized.value
                   /\ sessOp.pkg.hash = HashString(serialized.value)
            ELSE /\ sessOp.outcome = "invalid"
                 /\ sessOp.pkg = NoPackage /\ sessOp.file = NoText

(***************************************************************************)
(* C22  For a forest with unique node ids that contains the target id, the *)
(* node standing at the target's position in the result of updateNodeById  *)
(* is exactly updater(node): the same fields with the values the updater   *)
(* returned, including its children field, and no field added; or it is    *)
(* the original node reference when the updater returns nothing or returns *)
(* the same node.                                                          *)
(***************************************************************************)
UniqueIds(arr) ==
    \A p, q \in Paths(arr) : Get(NodeAt(arr, p).o, "id") = Get(NodeAt(arr, q).o, "id") => p = q
UpdaterResultStands ==
    (tcall # NoTreeCall /\ UniqueIds(forest)) =>
        \A path \in Hits :
            LET node == NodeAt(forest, path)
                updated == Updater(tcall.updater, node)
            IN  /\ path \in Paths(tres.nodes)
                /\ IF updated.ref = node.ref
                     THEN NodeAt(tres.nodes, path).ref = node.ref
                   ELSE UntagNode(NodeAt(tres.nodes, path)) = UntagNode(updated)

(***************************************************************************)
(* C23  Validity is preserved by editing: for every valid document and     *)
(* every node of it (a leaf without a children field included),            *)
(* updateNodeById with an updater that only changes name, tags, transform  *)
(* or components to valid values yields a forest with which the document   *)
(* still passes validateWorldDocument, so that it can be serialized.       *)
(***************************************************************************)
DocumentOf(arr) == Obj([nodes |-> Untag(arr)])
FieldUpdaters == {"decline", "same", "rename"}
EditKeepsValid ==
    (/\ tcall # NoTreeCall /\ tcall.updater \in FieldUpdaters
     /\ ValidateWorldDocument(DocumentOf(forest)).valid) =>
        /\ ValidateWorldDocument(DocumentOf(tres.nodes)).valid
        /\ SerializeWorld(DocumentOf(tres.nodes)).kind = "ok"

(***************************************************************************)
(* C24  In the Editor Session, from an updateNode that changed the         *)
(* document until an import, the session's mode machine reports isDirty()  *)
(* = true: a switchMode to the other mode made in that time evaluates the  *)
(* gate as dirty and invokes the configured autosave policy.               *)
(***************************************************************************)
SessionGateStep ==
    \A c \in 1..MaxCalls :
        (calls[c].pc = "new" /\ calls'[c].pc # "new" /\ sessDirty) =>
            /\ calls'[c].dirtyAtCall
            /\ calls'[c].invoked = <<Ev("autoSave", "", "", mode)>>
SessionGateSeesEdits == [][SessionGateStep]_vars

(***************************************************************************)
(* C25  A markDirty that happens while a switchMode is suspended in its    *)
(* autosave or confirm policy is erased when the gate resumes: the resume  *)
(* after autosave, or after a truthy confirmation, leaves the local dirty  *)
(* flag false whatever was marked since the policy was invoked, and a call *)
(* the gate let through commits its target whatever the flag is then.      *)
(* The state of the claim is reached: a committed switch, an edit made     *)
(* during its wait, and a local flag that is false.                        *)
(***************************************************************************)
StaleGateStep ==
    \A c \in 1..MaxCalls :
        /\ (/\ calls[c].pc \in {"awaitAutoSave", "awaitConfirm"}
            /\ calls'[c].pc = "awaitGate" /\ JsTruthy(calls'[c].canSwitch)) =>
               (~dirty' /\ calls'[c].marked = calls[c].marked)
        /\ (/\ calls[c].pc = "awaitGate" /\ calls'[c].pc = "new"
            /\ JsTruthy(calls[c].canSwitch)) =>
               (mode' = calls[c].target /\ returned'.result = "true" /\ returned'.marked = calls[c].marked)
StaleGate == [][StaleGateStep]_vars
StaleGateReached ==
    /\ returned.pc = "done" /\ returned.result = "true" /\ returned.marked
    /\ returned.invoked # <<>>
    /\ mode = returned.target /\ ~dirty

(***************************************************************************)
(* C26  Under every interleaving of switchMode calls, each notification a  *)
(* switch sends reports a mode different from the one the previous         *)
(* notification reported, and no context's activate hook is called twice   *)
(* without a call of its deactivate hook in between.  Every notification   *)
(* reports this.mode and every change of this.mode notifies the            *)
(* subscribers, so the previous notification reported the mode before the  *)
(* step; every switch activates the context of the mode it sets, so the    *)
(* context activated last is that of the mode before the step.             *)
(***************************************************************************)
SwitchEventsAlternate ==
    returned'.pc = "done" =>
        \A i \in 1..Len(emitted') :
            /\ emitted'[i].ev = "notify" => emitted'[i].b # mode
            /\ (emitted'[i].ev = "activate" /\ emitted'[i].a = mode) =>
                  \E j \in 1..(i - 1) : emitted'[j].ev = "deactivate" /\ emitted'[j].a = mode
InterleavedSwitchesAlternate == [][SwitchEventsAlternate]_vars

(***************************************************************************)
(* C27  If a switchMode call fails with an error (the autosave or confirm  *)
(* policy rejects, or a deactivate or activate hook throws), the machine   *)
(* is left consistent: the mode is unchanged, no subscriber is notified,   *)
(* and the context of the still-current mode has not been deactivated      *)
(* without a later activate.  A hook that threw does not count as having   *)
(* deactivated or activated its context.                                   *)
(***************************************************************************)
HookDone(e, hook, m) == e.ev = hook /\ e.a = m /\ e.b # "throws"
FailedSwitchStep ==
    returned'.result = "error" =>
        /\ mode' = mode
        /\ \A i \in 1..Len(emitted') : emitted'[i].ev # "notify"
        /\ \A i \in 1..Len(emitted') :
              HookDone(emitted'[i], "deactivate", mode') =>
                  \E j \in (i + 1)..Len(emitted') : HookDone(emitted'[j], "activate", mode')
FailedSwitchConsistent == [][FailedSwitchStep]_vars

(***************************************************************************)
(* C28  When the import is given a text that fails to deserialize          *)
(* (malformed, future version, invalid document, or a value that makes     *)
(* deserializeWorld throw), the error reaches the caller and the session   *)
(* state is unchanged: the owned document, the selection, the focused id,  *)
(* the session dirty state and the mode machine's dirty flag keep their    *)
(* values.                                                                 *)
(***************************************************************************)
ImportFailureStep ==
    (sessOp'.op = "import" /\ DeserializeWorld(sessOp'.payload).kind # "ok") =>
        /\ sessOp'.outcome = DeserializeWorld(sessOp'.payload).kind
        /\ owned' = owned /\ selection' = selection /\ focused' = focused
        /\ sessDirty' = sessDirty /\ dirty' = dirty
ImportFailureKeepsState == [][ImportFailureStep]_vars
ImportFailureKeepsStateReached ==
    /\ sessOp.op = "import" /\ sessOp.outcome = "invalid"
    /\ sessDirty /\ dirty /\ focused = "fire"
    /\ owned # DEFAULT_WORLD

(***************************************************************************)
(* C29  Session-level round trip: the file the editor's export writes for  *)
(* the current, valid document is accepted by the editor's import and      *)
(* yields a document deep-equal to the exported one with version 1.        *)
(***************************************************************************)
ExportThenImportStep ==
    (/\ sessOp.op = "export" /\ sessOp.outcome = "ok"
     /\ sessOp'.op = "import" /\ sessOp'.payload = sessOp.file) =>
        /\ sessOp'.outcome = "ok"
        /\ owned' = Stamp(ToJson(owned))
ExportImportRoundTrip == [][ExportThenImportStep]_vars

(***************************************************************************)
(* C30  Every failure of deserializeWorld is one of the three error kinds  *)
(* of the taxonomy: a parse error exactly when the text is not well        *)
(* formed; otherwise an unsupported-version error exactly when the version *)
(* is greater than 1; otherwise a validation error exactly when the        *)
(* validator reports errors, also for well-formed text that encodes a      *)
(* value that is not a record (null, a number, a string, an array).        *)
(***************************************************************************)
WellFormed == text.t = "text"
VersionAbove ==
    /\ WellFormed /\ IsObject(JsonParse(text))
    /\ GreaterThan(Get(JsonParse(text), "version"), CURRENT_WORLD_SCHEMA_VERSION)
ValidatorReports ==
    /\ WellFormed
    /\ ValidateWorldDocument(JsonParse(text)).kind = "returned"
    /\ ~ValidateWorldDocument(JsonParse(text)).valid
ErrorTaxonomy ==
    dres # NoOutcome =>
        /\ dres.kind \in {"ok", "SyntaxError", "future", "invalid"}
        /\ dres.kind = "SyntaxError" <=> ~WellFormed
        /\ WellFormed => (dres.kind = "future" <=> VersionAbove)
        /\ (WellFormed /\ ~VersionAbove) => (dres.kind = "invalid" <=> ValidatorReports)

(***************************************************************************)
(* C31  updateNodeById never modifies its input in place.  An object of    *)
(* memory is named by its reference, so a write to an object of the input  *)
(* shows as an object that carries an Original reference and differs from  *)
(* the input's object at that position: every node and every array of the  *)
(* result that is an object of the input has the fields, values and        *)
(* children the input has there, whether or not a node matched, and the    *)
(* caller's forest is the one it passed.                                   *)
(***************************************************************************)
ArrayAt(arr, path) == IF path = <<>> THEN arr ELSE NodeAt(arr, path).kids
RECURSIVE IntactItems(_, _)
IntactArray(arr, input) ==
    /\ arr.ref.new = 0 => (arr.ref.at = <<>> \/ arr.ref.at \in Paths(input)) /\ arr = ArrayAt(input, arr.ref.at)
    /\ IntactItems(arr.items, input)
IntactItems(items, input) ==
    \A i \in 1..Len(items) :
        /\ items[i].ref.new = 0 =>
              (items[i].ref.at \in Paths(input) /\ items[i] = NodeAt(input, items[i].ref.at))
        /\ items[i].ckey = "array" => IntactArray(items[i].kids, input)
InputIntactStep ==
    /\ forest' = forest
    /\ IntactArray(tres'.nodes, forest)
InputIntact == [][InputIntactStep]_vars
InputIntactReached ==
    /\ tcall.updater \in {"rename", "prune"} /\ tres.changed
    /\ tres.nodes.ref = Copied(<<>>)
    /\ \E path \in Paths(tres.nodes) :
          /\ NodeAt(tres.nodes, path).ref = Copied(path)
          /\ NodeAt(tres.nodes, path).kids.ref = Copied(path)
    /\ \E path \in Paths(tres.nodes) : NodeAt(tres.nodes, path).ref = Original(path)

(***************************************************************************)
(* C32  For a non-empty order of length len, focusNext(order, direction)   *)
(* with direction +1 or -1 focuses the id at index                         *)
(* (currentIndex + direction + len) mod len when the focused id is in      *)
(* order at currentIndex, and the id at index 0, for both directions, when *)
(* nothing is focused or the focused id is not in order.                   *)
(* FocusNextFormula is the statement that the formula holds in that case   *)
(* too, with currentIndex = -1.                                            *)
(***************************************************************************)
CurrentIndex(order, cur) == IF Truthy(cur) THEN IndexOf(order, cur) ELSE -1
FormulaIndex(order, cur, direction) ==
    (CurrentIndex(order, cur) + direction + Len(order)) % Len(order)
FocusNextTargetStep ==
    (selOp'.op = "focusNext" /\ selOp'.ids # <<>>) =>
        LET order == selOp'.ids
        IN  focused' = IF CurrentIndex(order, focused) = -1 THEN order[1]
                       ELSE order[FormulaIndex(order, focused, selOp'.dir) + 1]
FocusNextTarget == [][FocusNextTargetStep]_vars
FocusNextTargetReached ==
    /\ selOp.op = "focusNext" /\ selOp.dir = -1 /\ Len(selOp.ids) = 3 /\ Distinct(selOp.ids)
    /\ selOp.was = Absent
    /\ focused = selOp.ids[1] /\ selection = <<focused>>
FocusNextFormulaStep ==
    (selOp'.op = "focusNext" /\ selOp'.ids # <<>>) =>
        focused' = selOp'.ids[FormulaIndex(selOp'.ids, focused, selOp'.dir) + 1]
FocusNextFormula == [][FocusNextFormulaStep]_vars

(***************************************************************************)
(* C33  select(id, {additive}) changes membership as follows: with         *)
(* additive false the selection becomes exactly {id}; with additive true   *)
(* id is removed if it was selected and added otherwise, every other       *)
(* member staying; so two additive selects of the same id in a row restore *)
(* the membership.  The selection never lists an id twice.                 *)
(***************************************************************************)
SelectMembershipStep ==
    selOp'.op = "select" =>
        /\ Range(selection') =
              IF ~selOp'.additive THEN {selOp'.id}
              ELSE IF selOp'.id \in Range(selection) THEN Range(selection) \ {selOp'.id}
              ELSE Range(selection) \cup {selOp'.id}
        /\ Distinct(selection')
        /\ Range(SelectSelection(selection', selOp'.id, TRUE)) =
              IF selOp'.additive THEN Range(selection)
              ELSE {}
SelectMembership == [][SelectMembershipStep]_vars
SelectMembershipReached ==
    /\ selOp.op = "select" /\ selOp.additive
    /\ selOp.id \notin Range(selection) /\ Len(selection) = 2

(***************************************************************************)
(* C34  select(id, {focus: false}) leaves the focused id unchanged when it *)
(* is a member of the new selection; when the id focused before is not a   *)
(* member of the new selection, the focus becomes the first member of the  *)
(* new selection in insertion order, and absent when the new selection is  *)
(* empty.  The selection lists its members in insertion order, so the      *)
(* member chosen is a function of the operations made so far.              *)
(***************************************************************************)
SelectRefocusStep ==
    (selOp'.op = "select" /\ ~selOp'.focus) =>
        /\ focused \in Range(selection') => focused' = focused
        /\ (Truthy(focused) /\ focused \notin Range(selection')) => focused' = FirstOf(selection')
SelectRefocus == [][SelectRefocusStep]_vars
SelectRefocusReached ==
    /\ selOp.op = "select" /\ ~selOp.focus /\ selOp.additive
    /\ selOp.was = selOp.id /\ selOp.id \notin Range(selection)
    /\ Len(selection) = 2 /\ focused = selection[1]

(***************************************************************************)
(* C35  setSelection(ids, focusLast) makes the selection exactly the set   *)
(* of the provided ids; with focusLast true the focus becomes the last     *)
(* provided id (absent when none is provided); with focusLast false the    *)
(* focus is kept when it is a member of the new selection and otherwise,   *)
(* also when nothing was focused before, becomes the first provided id.    *)
(***************************************************************************)
SetSelectionStep ==
    selOp'.op = "setSelection" =>
        LET ids == selOp'.ids
        IN  /\ Range(selection') = Range(ids)
            /\ selOp'.focus => focused' = (IF ids = <<>> THEN Absent ELSE ids[Len(ids)])
            /\ ~selOp'.focus =>
                  focused' = (IF focused \in Range(selection') THEN focused ELSE FirstOf(ids))
SetSelectionContract == [][SetSelectionStep]_vars

(***************************************************************************)
(* C36  focus(id): when id is a member of the selection only the focus     *)
(* changes, to id; when id is given and is not a member the selection      *)
(* becomes exactly {id} and the focus id; when id is absent the selection  *)
(* is unchanged and the focus becomes a member of the selection, absent    *)
(* only if the selection is empty.                                         *)
(***************************************************************************)
FocusStep ==
    selOp'.op = "focus" =>
        LET id == selOp'.id
        IN  /\ (Truthy(id) /\ id \in Range(selection)) => (selection' = selection /\ focused' = id)
            /\ (Truthy(id) /\ id \notin Range(selection)) => (selection' = <<id>> /\ focused' = id)
            /\ ~Truthy(id) =>
                  /\ selection' = selection
                  /\ IF selection = <<>> THEN focused' = Absent ELSE focused' \in Range(selection)
FocusContract == [][FocusStep]_vars
FocusContractReached ==
    /\ selOp.op = "focus" /\ selOp.id = Absent
    /\ Len(selection) = 2 /\ focused \in Range(selection)
    /\ Truthy(selOp.was) /\ selOp.was # focused

(***************************************************************************)
(* C37  findNodeById(forest, id) returns the node at the first position at *)
(* which id occurs in the listing flattenNodeIds gives of the forest, the  *)
(* k-th entry of the listing belonging to the k-th node in pre-order       *)
(* depth-first order, and returns absent exactly when id does not occur    *)
(* in the listing.                                                         *)
(***************************************************************************)
FirstAt(ids, id) == CHOOSE k \in 1..Len(ids) : ids[k] = id /\ \A j \in 1..(k - 1) : ids[j] # id
FindAgreesWithListing ==
    (qfound.called /\ listed.called) =>
        IF qfound.id \in Range(listed.ids)
          THEN /\ Len(PreOrder(world)) = Len(listed.ids)
               /\ qfound.result = PreOrder(world)[FirstAt(listed.ids, qfound.id)]
        ELSE qfound.result = NotFound
FindAgreesWithListingReached ==
    /\ qfound.called /\ listed.called
    /\ Len(listed.ids) = 3 /\ listed.ids[1] # qfound.id
    /\ listed.ids[2] = qfound.id /\ listed.ids[3] = qfound.id
    /\ Len(qfound.result.path) = 2
    /\ Len(Get(world, "nodes").a) = 2

(***************************************************************************)
(* C38  flattenNodeIds lists one id per node in pre-order depth-first      *)
(* document order (each root, then its children left to right, before the *)
(* next root), the order in which the validator accumulates the ids it has *)
(* seen: the validator reports a uniqueness error for a node exactly when  *)
(* the node's position in the listing is not the first occurrence of its   *)
(* id.  ListingMatchesWhenReturned is the same for the runs in which the   *)
(* validator returns.                                                      *)
(***************************************************************************)
ListedInPreOrder ==
    listed.called =>
        /\ Len(listed.ids) = Len(PreOrder(world))
        /\ \A k \in 1..Len(listed.ids) : Str(listed.ids[k]) = Get(PreOrder(world)[k].node, "id")
NotFirst(ids, k) == \E j \in 1..(k - 1) : ids[j] = ids[k]
Reported(k) == vres.kind = "returned" /\ UniqueErrorAt(PreOrder(world)[k]) \in Range(vres.errors)
ListingMatchesWhenReturned ==
    (listed.called /\ vres.kind = "returned") =>
        /\ ListedInPreOrder
        /\ \A k \in 1..Len(listed.ids) : NotFirst(listed.ids, k) <=> Reported(k)
ListingMatchesValidator ==
    (listed.called /\ vres # NoOutcome) =>
        /\ ListedInPreOrder
        /\ \A k \in 1..Len(listed.ids) : NotFirst(listed.ids, k) <=> Reported(k)

(***************************************************************************)
(* C39  After any sequence of handleExpressionChange calls whose texture   *)
(* loads complete in any order, once every load has completed the texture  *)
(* on the sprite is the one loaded for the url requested last (lastUrl),   *)
(* and every texture applied before it has been disposed.                  *)
(* EarlierTexturesDisposed is the second half alone.                       *)
(***************************************************************************)
AllLoaded == loads # <<>> /\ \A r \in 1..Len(loads) : loads[r].st = "loaded"
EarlierTexturesDisposed ==
    \A i \in 1..(Len(textureLog.applied) - 1) : textureLog.applied[i] \in textureLog.disposed
LatestTextureApplied ==
    (AllLoaded /\ lastUrl # NoUrl) =>
        /\ spriteMap # NoTexture /\ spriteMap.url = lastUrl
        /\ EarlierTexturesDisposed

(***************************************************************************)
(* C40  Whenever a world-engine iframe finishes loading while the host     *)
(* chat has a latest assistant message, that frame is sent a chat history  *)
(* payload containing this message, also when the message's signature was  *)
(* already recorded (by the initial sync, the poll timer or a chat event)  *)
(* before the frame loaded.                                                *)
(***************************************************************************)
LoadedFrameStep ==
    \A f \in Frames :
        (frames[f] = "loading" /\ frames'[f] = "loaded" /\ chat # NoMessage) =>
            HistoryPayload(chat) \in inbox'[f]
LoadedFrameGetsHistory == [][LoadedFrameStep]_vars

====
